---- MODULE Spec2Model ----
(***************************************************************************)
(* Model of the heuristic analysis and mapping pipeline of the Mistica     *)
(* design-system server: ComponentMapper, SearchEngine, ElementExtractor,  *)
(* SkinVarsAnalyzer and TypographyAnalyzer.                                *)
(*                                                                         *)
(* Every analysis routine is a function of its arguments.  Each one has a  *)
(* call record (its arguments, a program counter and its result); the      *)
(* initial states draw the arguments from bounded sets and one action per  *)
(* routine applies it.  Strings are TLA+ strings, inspected with Len,      *)
(* SubSeq and \o exactly as the code inspects them with includes,          *)
(* startsWith, toLowerCase and trim.                                       *)
(***************************************************************************)
EXTENDS Integers, Sequences, FiniteSets, TLC

VARIABLES
    mapperCall,     \* ComponentMapper.findMisticaEquivalents: arguments and result
    searchCall,     \* SearchEngine.smartSearchComponents: arguments and result
    extractCall,    \* ElementExtractor.extractUIElements: argument and result
    colorCall,      \* SkinVarsAnalyzer.normalizeColor: argument and results
    typoCall,       \* TypographyAnalyzer.analyzeTypography: arguments and result
    pipeline,       \* the calls made to the analysis pipeline, and what the
                    \* patterns of FigmaAnalyzer.extractMetadata were left with
    scraper,        \* MisticaScraper: its cache entry, what its sources hold, and
                    \* what its last call and the last cache status returned
    request,        \* MisticaScraper.makeRequest: where one call of it stands
    cacheManager,   \* CacheManager: its map, its files and the clock
    rateLimiter     \* RateLimiter: the times of the requests granted, and the clock

vars == <<mapperCall, searchCall, extractCall, colorCall, typoCall, pipeline, scraper,
          request, cacheManager, rateLimiter>>

\* A routine that is not part of the specification being explored.
NotUsed == [pc |-> "unused"]

-----------------------------------------------------------------------------
(* String and array primitives of the JavaScript runtime *)

\* String.prototype.includes
Includes(s, t) == \E i \in 0..(Len(s) - Len(t)) : SubSeq(s, i + 1, i + Len(t)) = t

\* String.prototype.startsWith / endsWith
StartsWith(s, t) == Len(t) <= Len(s) /\ SubSeq(s, 1, Len(t)) = t
EndsWith(s, t) == Len(t) <= Len(s) /\ SubSeq(s, Len(s) - Len(t) + 1, Len(s)) = t

UpperChars == "ABCDEFGHIJKLMNOPQRSTUVWXYZ"
LowerChars == "abcdefghijklmnopqrstuvwxyz"

\* one character of String.prototype.toLowerCase
LowerOf ==
    [c \in {SubSeq(UpperChars, i, i) : i \in 1..Len(UpperChars)} |->
        LET i == CHOOSE j \in 1..Len(UpperChars) : SubSeq(UpperChars, j, j) = c
        IN SubSeq(LowerChars, i, i)]

LowerChar(c) == IF c \in DOMAIN LowerOf THEN LowerOf[c] ELSE c

RECURSIVE ToLowerCase(_)
ToLowerCase(s) ==
    IF s = "" THEN ""
    ELSE IF Len(s) = 1 THEN LowerChar(s)
    ELSE LET half == Len(s) \div 2
         IN ToLowerCase(SubSeq(s, 1, half)) \o ToLowerCase(SubSeq(s, half + 1, Len(s)))

\* the characters String.prototype.trim removes (of the modelled alphabet)
IsSpace(c) == c \in {" ", "\t", "\n"}

RECURSIVE TrimStart(_)
TrimStart(s) ==
    IF s # "" /\ IsSpace(SubSeq(s, 1, 1)) THEN TrimStart(SubSeq(s, 2, Len(s))) ELSE s

RECURSIVE TrimEnd(_)
TrimEnd(s) ==
    IF s # "" /\ IsSpace(SubSeq(s, Len(s), Len(s)))
    THEN TrimEnd(SubSeq(s, 1, Len(s) - 1)) ELSE s

Trim(s) == TrimEnd(TrimStart(s))

\* Array.prototype.includes / some over a sequence
InSeq(x, s) == \E i \in 1..Len(s) : s[i] = x

\* [...new Set(array)]: the first occurrence of every value, in order
RECURSIVE Unique(_)
Unique(s) ==
    IF s = <<>> THEN <<>>
    ELSE LET front == Unique(SubSeq(s, 1, Len(s) - 1))
             last == s[Len(s)]
         IN IF InSeq(last, front) THEN front ELSE Append(front, last)

\* Array.prototype.slice(0, n)
Slice(s, n) == SubSeq(s, 1, IF Len(s) < n THEN Len(s) ELSE n)

\* a sort whose comparator is a.score - b.score
RECURSIVE SortByScoreAsc(_)
SortByScoreAsc(s) ==
    IF s = <<>> THEN <<>>
    ELSE LET RECURSIVE Insert(_, _)
             Insert(sorted, e) ==
                 IF sorted = <<>> THEN <<e>>
                 ELSE IF Head(sorted).score <= e.score
                      THEN <<Head(sorted)>> \o Insert(Tail(sorted), e)
                      ELSE <<e>> \o sorted
         IN Insert(SortByScoreAsc(SubSeq(s, 1, Len(s) - 1)), s[Len(s)])

\* an insertion that puts an entry before the entries of equal score
RECURSIVE InsertBeforeTies(_, _)
InsertBeforeTies(sorted, e) ==
    IF sorted = <<>> THEN <<e>>
    ELSE IF Head(sorted).score > e.score
         THEN <<Head(sorted)>> \o InsertBeforeTies(Tail(sorted), e)
         ELSE <<e>> \o sorted

\* Array.prototype.sort((a, b) => b.score - a.score): a stable sort, entries of
\* equal score keep their order.
RECURSIVE InsertByScore(_, _)
InsertByScore(sorted, e) ==
    IF sorted = <<>> THEN <<e>>
    ELSE IF Head(sorted).score >= e.score
         THEN <<Head(sorted)>> \o InsertByScore(Tail(sorted), e)
         ELSE <<e>> \o sorted

RECURSIVE SortByScoreDesc(_)
SortByScoreDesc(s) ==
    IF s = <<>> THEN <<>>
    ELSE InsertByScore(SortByScoreDesc(SubSeq(s, 1, Len(s) - 1)), s[Len(s)])

Max(a, b) == IF a >= b THEN a ELSE b
Min(a, b) == IF a <= b THEN a ELSE b

\* Array.prototype.flatMap over a sequence of sequences
RECURSIVE Flatten(_)
Flatten(ss) == IF ss = <<>> THEN <<>> ELSE Head(ss) \o Flatten(Tail(ss))

-----------------------------------------------------------------------------
(* ComponentMapper *)

\* .slice(0, 10): the result size of findMisticaEquivalents
MaxSuggestions == 10

\* Array.prototype.findIndex, 1-based; 0 when no element passes
FindIndex(s, Test(_)) ==
    LET RECURSIVE From(_)
        From(i) == IF i > Len(s) THEN 0 ELSE IF Test(s[i]) THEN i ELSE From(i + 1)
    IN From(1)

findComponentsByPattern(components, pats) ==
    LET Qualifies(comp) ==
            LET name == ToLowerCase(comp.name)
                description == ToLowerCase(comp.description)
            IN \E i \in 1..Len(pats) :
                   \/ Includes(name, ToLowerCase(pats[i]))
                   \/ Includes(description, ToLowerCase(pats[i]))
    IN SelectSeq(components, Qualifies)

inferComplexity(elements) ==
    LET elementCounts ==
            elements.buttons.count + elements.texts.count + elements.containers.count
            + elements.lists.count + elements.icons.count + elements.inputs.count
            + elements.images.count
    IN IF elementCounts > 15 THEN "high"
       ELSE IF elementCounts > 8 THEN "medium"
       ELSE "low"

getButtonComponents(buttons) ==
    LET components ==
            (IF buttons.hasActions THEN <<"ButtonPrimary", "ButtonSecondary", "Touchable">> ELSE <<>>)
            \o (IF InSeq("icon", buttons.variants) THEN <<"IconButton">> ELSE <<>>)
            \o (IF InSeq("link", buttons.variants) THEN <<"TextLink">> ELSE <<>>)
            \o (IF InSeq("danger", buttons.variants) THEN <<"ButtonDanger">> ELSE <<>>)
    IN IF Len(components) > 0 THEN components ELSE <<"ButtonPrimary", "Touchable">>

getButtonReason(buttons) ==
    IF buttons.hasActions THEN "Para elementos interativos com acoes (clique, toque)"
    ELSE "Para componentes de acao basicos"

getTextComponents(texts) ==
    LET components ==
            (IF InSeq("h1", texts.hierarchy) THEN <<"Title1">> ELSE <<>>)
            \o (IF InSeq("h2", texts.hierarchy) THEN <<"Title2">> ELSE <<>>)
            \o (IF InSeq("h3", texts.hierarchy) THEN <<"Title3">> ELSE <<>>)
            \o (IF InSeq("subtitle", texts.hierarchy) THEN <<"Title2", "Title3">> ELSE <<>>)
            \o (IF InSeq("body", texts.hierarchy) THEN <<"Text">> ELSE <<>>)
    IN IF Len(components) > 0 THEN components ELSE <<"Text", "Title1">>

getTextReason(texts) ==
    IF texts.hasFormatting THEN "Para textos com hierarquia e formatacao especifica"
    ELSE "Para conteudo textual e titulos"

getListComponents(lists) ==
    LET components ==
            (IF lists.hasNavigation /\ lists.structure.hasIcons THEN <<"BoxedRowList", "BoxedRow">>
             ELSE IF lists.hasNavigation THEN <<"RowList", "BoxedRow">>
             ELSE IF lists.isRepeated THEN <<"RowList", "BoxedRowList">>
             ELSE <<>>)
            \o (IF lists.structure.hasActions THEN <<"BoxedRow", "Menu">> ELSE <<>>)
    IN IF Len(components) > 0 THEN components ELSE <<"RowList">>

getListReason(lists) ==
    IF lists.hasNavigation /\ lists.structure.hasIcons
    THEN "Para listas interativas com icones e navegacao - IDEAL: BoxedRowList + BoxedRow"
    ELSE IF lists.isRepeated THEN "Para listas de elementos repetitivos estruturados"
    ELSE "Para organizacao de conteudo em lista"

MisticaSpacingValues == <<"8px", "16px", "24px", "32px">>

getContainerComponents(containers, structure, spacing) ==
    LET base ==
            (IF structure.layoutType = "vertical" THEN <<"Stack">> ELSE <<>>)
            \o (IF structure.layoutType = "horizontal" THEN <<"Inline">> ELSE <<>>)
            \o (IF structure.layoutType = "grid" THEN <<"Grid", "GridLayout">> ELSE <<>>)
            \o (IF containers.hasPadding THEN <<"Box">> ELSE <<>>)
        aligned == spacing.found /\ InSeq("design-system-aligned", spacing.spacingPatterns)
        \* components.unshift('Stack'), then components.unshift('Box')
        withStack == IF aligned THEN <<"Stack">> \o base ELSE base
        withBox ==
            IF aligned /\ \E i \in 1..Len(spacing.spacingValues) :
                              InSeq(spacing.spacingValues[i], MisticaSpacingValues)
            THEN <<"Box">> \o withStack ELSE withStack
        components ==
            withBox
            \o (IF spacing.found /\ InSeq("gap", spacing.spacingTypes) THEN <<"Inline">> ELSE <<>>)
            \o (IF spacing.found /\ Len(spacing.spacingTypes) > 2 THEN <<"Grid">> ELSE <<>>)
            \o (IF InSeq("card", containers.types) THEN <<"DataCard", "MediaCard">> ELSE <<>>)
    IN IF Len(components) > 0 THEN Unique(components) ELSE <<"Box", "Stack">>

getContainerReason(containers, structure, spacing) ==
    IF spacing.found /\ InSeq("design-system-aligned", spacing.spacingPatterns)
    THEN "Para layout com espacamento alinhado ao design system Mistica"
    ELSE IF spacing.found /\ InSeq("consistent", spacing.spacingPatterns)
    THEN "Para layout com espacamento consistente e controlado"
    ELSE IF spacing.found /\ InSeq("mixed", spacing.spacingPatterns)
    THEN "Para normalizar espacamento inconsistente usando padroes Mistica"
    ELSE IF structure.layoutType = "vertical"
    THEN "Para layout vertical com espacamento controlado"
    ELSE IF structure.layoutType = "grid" THEN "Para layouts em grade organizados"
    ELSE "Para organizacao e espacamento de elementos"

getIconComponents(icons) == IF icons.hasInteraction THEN <<"IconButton">> ELSE <<"Logo">>

getIconReason(icons) ==
    IF icons.hasInteraction THEN "Para icones interativos com acoes (botoes de icone)"
    ELSE "Para icones decorativos e identidade visual"

InputTypeComponents(type) ==
    CASE type = "email" -> <<"EmailField">>
      [] type = "password" -> <<"PasswordField">>
      [] type = "number" -> <<"IntegerField", "DecimalField">>
      [] type = "search" -> <<"SearchField">>
      [] type = "date" -> <<"DateField", "DateTimeField">>
      [] type = "textarea" -> <<"TextField">>
      [] OTHER -> <<"TextField">>

getInputComponents(inputs) ==
    LET components ==
            Flatten([i \in 1..Len(inputs.types) |-> InputTypeComponents(inputs.types[i])])
            \o (IF inputs.hasValidation THEN <<"Form">> ELSE <<>>)
    IN IF Len(components) > 0 THEN components ELSE <<"TextField">>

getInputReason(inputs) ==
    IF inputs.hasValidation
    THEN "Para campos de entrada com validacao e formularios estruturados"
    ELSE "Para entrada de dados do usuario"

getNavigationComponents(navigation) ==
    <<"NavigationBar">>
    \o (IF navigation.hasTitle /\ ~navigation.hasBackButton THEN <<"Header">> ELSE <<>>)
    \o (IF navigation.hasActions THEN <<"Header">> ELSE <<>>)

getNavigationReason(navigation) ==
    IF navigation.hasBackButton THEN "Para navegacao com botao de voltar e titulo"
    ELSE IF navigation.hasActions THEN "Para cabecalho com acoes e navegacao"
    ELSE "Para estrutura de navegacao basica"

\* Object.entries(elementMappings) visits the families in this order
ElementTypes == <<"buttons", "texts", "lists", "containers", "icons", "inputs", "navigation">>

createElementMappings(elements, structure) ==
    [buttons |->
        [detected |-> elements.buttons.found,
         misticaComponents |-> getButtonComponents(elements.buttons),
         reason |-> getButtonReason(elements.buttons),
         priority |-> IF elements.buttons.hasActions THEN 90 ELSE 70],
     texts |->
        [detected |-> elements.texts.found,
         misticaComponents |-> getTextComponents(elements.texts),
         reason |-> getTextReason(elements.texts),
         priority |-> 60],
     lists |->
        [detected |-> elements.lists.found,
         misticaComponents |-> getListComponents(elements.lists),
         reason |-> getListReason(elements.lists),
         priority |-> IF elements.lists.hasNavigation THEN 95 ELSE 80],
     containers |->
        [detected |-> elements.containers.found,
         misticaComponents |->
             getContainerComponents(elements.containers, structure, elements.spacing),
         reason |-> getContainerReason(elements.containers, structure, elements.spacing),
         priority |-> 50],
     icons |->
        [detected |-> elements.icons.found,
         misticaComponents |-> getIconComponents(elements.icons),
         reason |-> getIconReason(elements.icons),
         priority |-> IF elements.icons.hasInteraction THEN 75 ELSE 40],
     inputs |->
        [detected |-> elements.inputs.found,
         misticaComponents |-> getInputComponents(elements.inputs),
         reason |-> getInputReason(elements.inputs),
         priority |-> IF elements.inputs.hasValidation THEN 85 ELSE 70],
     navigation |->
        [detected |-> elements.navigation.found,
         misticaComponents |-> getNavigationComponents(elements.navigation),
         reason |-> getNavigationReason(elements.navigation),
         priority |-> 90]]

categoryBoosts(category) ==
    CASE category = "components" -> 25
      [] category = "layout" -> 20
      [] category = "icons" -> 15
      [] category = "utilities" -> 10
      [] category = "hooks" -> 5
      [] OTHER -> 0

\* the object literal complexityBoosts, built for the inferred complexity
complexityBoosts(complexity) ==
    [high |-> IF complexity = "high" THEN 20 ELSE -10,
     medium |-> IF complexity = "medium" THEN 15 ELSE 0,
     low |-> IF complexity = "low" THEN 10 ELSE 5]

\* complexityBoosts[complexity]: the entry of the table that the inferred
\* complexity itself names
ComplexityBoost(elements) ==
    complexityBoosts(inferComplexity(elements))[inferComplexity(elements)]

SpacingComponentWords == <<"stack", "box", "container", "grid", "flex">>

\* the score before the final Math.max(score, 0)
IntelligentScoreSum(elementType, component, elements, mapping) ==
    LET componentName == ToLowerCase(component.name)
        spacing == elements.spacing
        complexity == inferComplexity(elements)
    IN (IF mapping.priority # 0 THEN mapping.priority ELSE 50)
       + (IF Includes(componentName, elementType) THEN 30 ELSE 0)
       + categoryBoosts(component.category)
       + (IF spacing.found /\ InSeq("design-system-aligned", spacing.spacingPatterns)
             /\ (component.category = "layout" \/ Includes(componentName, "stack")
                 \/ Includes(componentName, "box"))
          THEN 25 ELSE 0)
       + (IF spacing.found /\ InSeq("consistent", spacing.spacingPatterns) THEN 15 ELSE 0)
       + (IF spacing.found /\ \E i \in 1..Len(SpacingComponentWords) :
                                  Includes(componentName, SpacingComponentWords[i])
          THEN 20 ELSE 0)
       - (IF spacing.found /\ InSeq("mixed", spacing.spacingPatterns)
             /\ (elementType = "layout" \/ elementType = "containers")
          THEN 10 ELSE 0)
       + ComplexityBoost(elements)
       - (IF elementType = "lists" /\ ~Includes(componentName, "list")
             /\ ~Includes(componentName, "row")
          THEN 20 ELSE 0)
       - (IF elementType = "buttons" /\ ~Includes(componentName, "button")
             /\ ~Includes(componentName, "touchable")
          THEN 15 ELSE 0)

\* the score without the floor and with penalties of 200 and 150 for 20 and 15
calculateIntelligentScoreUnfloored(elementType, component, elements, mapping) ==
    LET componentName == ToLowerCase(component.name)
    IN IntelligentScoreSum(elementType, component, elements, mapping)
       - (IF elementType = "lists" /\ ~Includes(componentName, "list")
             /\ ~Includes(componentName, "row")
          THEN 180 ELSE 0)
       - (IF elementType = "buttons" /\ ~Includes(componentName, "button")
             /\ ~Includes(componentName, "touchable")
          THEN 135 ELSE 0)

calculateIntelligentScore(elementType, component, elements, mapping) ==
    Max(IntelligentScoreSum(elementType, component, elements, mapping), 0)

\* suggestions of a pattern that keep the names the catalog does not hold
PatternSuggestionsUnresolved(flag, names, reason, score, allComponents) ==
    IF ~flag THEN <<>>
    ELSE [k \in 1..Len(names) |->
             [component |-> [name |-> names[k], category |-> "components",
                            description |-> ""],
              reason |-> reason,
              score |-> score]]

\* one pattern of getPatternBasedSuggestions: the listed names that the catalog
\* holds (exact name), each at the pattern's fixed score
PatternSuggestions(flag, names, reason, score, allComponents) ==
    IF ~flag THEN <<>>
    ELSE LET Resolve(name) ==
                 LET IsName(c) == c.name = name
                     i == FindIndex(allComponents, IsName)
                 IN IF i = 0 THEN <<>>
                    ELSE <<[component |-> allComponents[i], reason |-> reason,
                            score |-> score]>>
         IN Flatten([k \in 1..Len(names) |-> Resolve(names[k])])

getPatternBasedSuggestions(patterns, allComponents) ==
    PatternSuggestions(patterns.listPattern, <<"BoxedRowList", "RowList", "BoxedRow">>,
        "Detectado padrao de lista com elementos repetitivos", 85, allComponents)
    \o PatternSuggestions(patterns.cardPattern,
        <<"DataCard", "MediaCard", "HighlightedCard", "BoxedRow">>,
        "Detectado padrao de card com container estruturado", 80, allComponents)
    \o PatternSuggestions(patterns.formPattern,
        <<"Form", "TextField", "EmailField", "PasswordField">>,
        "Detectado padrao de formulario com multiplos inputs", 85, allComponents)
    \o PatternSuggestions(patterns.navigationPattern,
        <<"NavigationBar", "Header", "NavigationBreadcrumbs">>,
        "Detectado padrao de navegacao com cabecalho", 90, allComponents)
    \o PatternSuggestions(patterns.modalPattern, <<"ActionsSheet", "Drawer", "InfoSheet">>,
        "Detectado padrao de modal ou overlay", 85, allComponents)

\* tier 1: the fixed-footer and PIN special cases
SpecialCaseSuggestions(elements, allComponents) ==
    LET footer ==
            IF elements.layouts.hasFixedFooter /\ elements.layouts.containsButtonInFooter
            THEN findComponentsByPattern(allComponents,
                     <<"layout", "footer", "fixed", "button">>)
            ELSE <<>>
        pin ==
            IF elements.security.hasPinField \/ elements.security.hasCodeInput
            THEN findComponentsByPattern(allComponents,
                     <<"pin", "code", "security", "otp", "verification">>)
            ELSE <<>>
    IN [i \in 1..Len(footer) |->
           [component |-> footer[i],
            reason |-> "Componente para layout com botao fixo no footer (Button Fixed Footer Layout)",
            score |-> 95]]
       \o [i \in 1..Len(pin) |->
           [component |-> pin[i],
            reason |-> "Componente para entrada de codigo PIN/seguranca",
            score |-> 90]]

\* tier 2: the detected families, each candidate name resolved against the
\* catalog by lowercased name
FamilySuggestions(elements, structure, allComponents) ==
    LET elementMappings == createElementMappings(elements, structure)
        OfName(elementType, mapping, componentName) ==
            LET IsName(c) == ToLowerCase(c.name) = ToLowerCase(componentName)
                i == FindIndex(allComponents, IsName)
            IN IF i = 0 THEN <<>>
               ELSE <<[component |-> allComponents[i],
                       reason |-> mapping.reason,
                       score |-> calculateIntelligentScore(elementType, allComponents[i],
                                                            elements, mapping)]>>
        OfType(elementType) ==
            LET mapping == elementMappings[elementType]
            IN IF mapping.detected
               THEN Flatten([k \in 1..Len(mapping.misticaComponents) |->
                                OfName(elementType, mapping, mapping.misticaComponents[k])])
               ELSE <<>>
    IN Flatten([t \in 1..Len(ElementTypes) |-> OfType(ElementTypes[t])])

\* the suggestions of the three tiers in the order the code pushes them
AllSuggestions(elements, structure, patterns, allComponents) ==
    SpecialCaseSuggestions(elements, allComponents)
    \o FamilySuggestions(elements, structure, allComponents)
    \o getPatternBasedSuggestions(patterns, allComponents)

\* a filter that compares the components instead of their names
FilterFirstByComponent(suggestions) ==
    LET Keep(i) == \A j \in 1..(i - 1) : suggestions[j].component # suggestions[i].component
        RECURSIVE Kept(_)
        Kept(i) == IF i > Len(suggestions) THEN <<>>
                   ELSE (IF Keep(i) THEN <<suggestions[i]>> ELSE <<>>) \o Kept(i + 1)
    IN Kept(1)

\* .filter((s, index, self) => index === self.findIndex(x => x.component.name === s.component.name))
FilterFirstByName(suggestions) ==
    LET Keep(i) == \A j \in 1..(i - 1) :
                       suggestions[j].component.name # suggestions[i].component.name
        RECURSIVE Kept(_)
        Kept(i) == IF i > Len(suggestions) THEN <<>>
                   ELSE (IF Keep(i) THEN <<suggestions[i]>> ELSE <<>>) \o Kept(i + 1)
    IN Kept(1)

findMisticaEquivalents(elements, structure, patterns, allComponents) ==
    Slice(SortByScoreDesc(FilterFirstByName(
              AllSuggestions(elements, structure, patterns, allComponents))),
          MaxSuggestions)


-----------------------------------------------------------------------------
(* Arguments of findMisticaEquivalents *)

\* at most this many of the signals a call reads (the groups of UIElements, the
\* layout type of StructuralAnalysis, the flags of UIPatterns) differ from "nothing
\* detected"
MaxDetected == 2

Component(name, category, description) ==
    [name |-> name, category |-> category, description |-> description]

\* a catalog in the shape of the known-component list, one or two per family
CatalogCore ==
    <<Component("ButtonPrimary", "components", "Primary action"),
      Component("Touchable", "utilities", "Wrapper for press events"),
      Component("IconButton", "components", "Icon that triggers an action"),
      Component("Text", "components", "Body copy"),
      Component("Title1", "components", "Section heading"),
      Component("RowList", "components", "Rows of content"),
      Component("BoxedRowList", "components", "Boxed rows of content"),
      Component("BoxedRow", "components", "One boxed row"),
      Component("Menu", "components", "Dropdown options"),
      Component("Stack", "layout", "Vertical spacing"),
      Component("Box", "layout", "Padding wrapper"),
      Component("Inline", "layout", "Horizontal spacing"),
       Component("TextField", "components", "Single line entry"),
      Component("Form", "components", "Groups entries and validates them"),
      Component("NavigationBar", "components", "Top bar"),
      Component("Header", "components", "Page heading area"),
      Component("DataCard", "components", "Card with data"),
      Component("Drawer", "community", "Side sheet"),
      Component("PinField", "components", "Entry for a PIN code"),
      Component("ButtonFixedFooterLayout", "layout", "Fixed footer with a button")>>

\* more than ten components that the fixed-footer keywords select
CatalogButtons ==
    <<Component("ButtonLayout", "layout", "Aligns actions"),
      Component("ButtonPrimary", "components", "Primary action"),
      Component("ButtonSecondary", "components", "Secondary action"),
      Component("ButtonDanger", "components", "Destructive action"),
      Component("ButtonLink", "components", "Link action"),
      Component("IconButton", "components", "Icon that triggers an action"),
      Component("Touchable", "utilities", "Base of every button"),
      Component("TextLink", "components", "Inline link, not a Button"),
      Component("FixedFooterLayout", "layout", "Keeps the footer visible"),
      Component("ButtonGroup", "lab", "Row of buttons"),
      Component("ToggleIconButton", "components", "Two state icon"),
      Component("MasterDetailLayout", "layout", "Two panes"),
      Component("Title1", "hooks", "Heading")>>

\* names that differ only in case, and one name under two categories
CatalogVariants ==
    <<Component("boxedrow", "lab", "Footer row"),
      Component("BoxedRow", "components", "One boxed row with a button"),
      Component("BoxedRow", "community", "Pin code row"),
      Component("ROWLIST", "utilities", "Rows"),
      Component("RowList", "components", "Rows of content"),
      Component("Box", "layout", "Padding wrapper"),
      Component("Stack", "patterns", "Vertical spacing")>>

Catalogs == {<<>>, CatalogCore, CatalogButtons, CatalogVariants}

SignalGroups ==
    {"buttons", "texts", "lists", "containers", "icons", "inputs", "navigation",
     "layouts", "security", "spacing"}

\* a family the markup shows no sign of
NotFound(g) ==
    CASE g = "buttons" -> [found |-> FALSE, count |-> 0, hasActions |-> FALSE, variants |-> <<>>]
      [] g = "texts" -> [found |-> FALSE, count |-> 0, hasFormatting |-> FALSE, hierarchy |-> <<>>]
      [] g = "lists" ->
            [found |-> FALSE, count |-> 0, isRepeated |-> FALSE, hasNavigation |-> FALSE,
             structure |-> [hasIcons |-> FALSE, hasActions |-> FALSE]]
      [] g = "containers" -> [found |-> FALSE, count |-> 0, hasPadding |-> FALSE, types |-> <<>>]
      [] g = "icons" -> [found |-> FALSE, count |-> 0, hasInteraction |-> FALSE]
      [] g = "inputs" -> [found |-> FALSE, count |-> 0, types |-> <<>>, hasValidation |-> FALSE]
      [] g = "navigation" ->
            [found |-> FALSE, hasBackButton |-> FALSE, hasTitle |-> FALSE, hasActions |-> FALSE]
      [] g = "layouts" ->
            [found |-> FALSE, hasFixedFooter |-> FALSE, containsButtonInFooter |-> FALSE]
      [] g = "security" -> [found |-> FALSE, hasPinField |-> FALSE, hasCodeInput |-> FALSE]
      [] g = "spacing" ->
            [found |-> FALSE, spacingTypes |-> <<>>, spacingValues |-> <<>>,
             spacingPatterns |-> <<"design-system">>]

\* the signals of a family the markup shows
Detected(g) ==
    CASE g = "buttons" ->
            {[found |-> TRUE, count |-> 2, hasActions |-> TRUE, variants |-> <<>>],
             [found |-> TRUE, count |-> 9, hasActions |-> FALSE,
              variants |-> <<"danger", "link", "icon">>],
             [found |-> FALSE, count |-> 16, hasActions |-> TRUE, variants |-> <<"primary">>]}
      [] g = "texts" ->
            {[found |-> TRUE, count |-> 1, hasFormatting |-> FALSE, hierarchy |-> <<>>],
             [found |-> TRUE, count |-> 4, hasFormatting |-> TRUE,
              hierarchy |-> <<"text1", "bold", "h1", "h2", "subtitle", "body">>]}
      [] g = "lists" ->
            {[found |-> TRUE, count |-> 3, isRepeated |-> TRUE, hasNavigation |-> TRUE,
              structure |-> [hasIcons |-> TRUE, hasActions |-> TRUE]],
             [found |-> TRUE, count |-> 3, isRepeated |-> FALSE, hasNavigation |-> TRUE,
              structure |-> [hasIcons |-> FALSE, hasActions |-> FALSE]],
             [found |-> TRUE, count |-> 9, isRepeated |-> TRUE, hasNavigation |-> FALSE,
              structure |-> [hasIcons |-> FALSE, hasActions |-> TRUE]],
             [found |-> TRUE, count |-> 1, isRepeated |-> FALSE, hasNavigation |-> FALSE,
              structure |-> [hasIcons |-> FALSE, hasActions |-> FALSE]]}
      [] g = "containers" ->
            {[found |-> TRUE, count |-> 2, hasPadding |-> FALSE, types |-> <<>>],
             [found |-> TRUE, count |-> 7, hasPadding |-> TRUE, types |-> <<"box", "card">>]}
      [] g = "icons" ->
            {[found |-> TRUE, count |-> 1, hasInteraction |-> FALSE],
             [found |-> TRUE, count |-> 2, hasInteraction |-> TRUE]}
      [] g = "inputs" ->
            {[found |-> TRUE, count |-> 1, types |-> <<>>, hasValidation |-> FALSE],
             [found |-> TRUE, count |-> 3, types |-> <<"email", "number", "textarea">>,
              hasValidation |-> TRUE]}
      [] g = "navigation" ->
            {[found |-> TRUE, hasBackButton |-> TRUE, hasTitle |-> TRUE, hasActions |-> FALSE],
             [found |-> TRUE, hasBackButton |-> FALSE, hasTitle |-> TRUE, hasActions |-> TRUE]}
      [] g = "layouts" ->
            {[found |-> TRUE, hasFixedFooter |-> TRUE, containsButtonInFooter |-> FALSE],
             [found |-> TRUE, hasFixedFooter |-> TRUE, containsButtonInFooter |-> TRUE]}
      [] g = "security" ->
            {[found |-> TRUE, hasPinField |-> FALSE, hasCodeInput |-> TRUE]}
      [] g = "spacing" ->
            {[found |-> TRUE, spacingTypes |-> <<"padding">>, spacingValues |-> <<"10px">>,
              spacingPatterns |-> <<"consistent">>],
             [found |-> TRUE, spacingTypes |-> <<"padding", "margin", "gap">>,
              spacingValues |-> <<"8px", "3em">>,
              spacingPatterns |-> <<"design-system", "design-system-aligned">>],
             [found |-> TRUE, spacingTypes |-> <<"gap">>,
              spacingValues |-> <<"1px", "2px", "3px", "5px">>,
              spacingPatterns |-> <<"mixed">>]}

SignalsOf(D, g) == IF g \in D THEN Detected(g) ELSE {NotFound(g)}

\* the UIElements records with the groups of D detected
ElementsWith(D) ==
    [buttons : SignalsOf(D, "buttons"), texts : SignalsOf(D, "texts"),
     lists : SignalsOf(D, "lists"), containers : SignalsOf(D, "containers"),
     icons : SignalsOf(D, "icons"), inputs : SignalsOf(D, "inputs"),
     images : {[found |-> FALSE, count |-> 0]},
     navigation : SignalsOf(D, "navigation"), layouts : SignalsOf(D, "layouts"),
     security : SignalsOf(D, "security"), spacing : SignalsOf(D, "spacing")]

PatternNames ==
    {"listPattern", "cardPattern", "formPattern", "navigationPattern", "modalPattern"}

\* the flags of UIPatterns that getPatternBasedSuggestions reads
PatternsWith(D) == [n \in PatternNames |-> n \in D]

\* PatternDetector.detectLayoutType: "flow" when nothing matches
StructureWith(D) ==
    IF "structure" \in D THEN {[layoutType |-> t] : t \in {"vertical", "horizontal", "grid"}}
    ELSE {[layoutType |-> "flow"]}

InputSignals == SignalGroups \cup PatternNames \cup {"structure"}

MapperCalls ==
    UNION {[pc : {"called"}, elements : ElementsWith(D), structure : StructureWith(D),
            patterns : {PatternsWith(D)}, allComponents : Catalogs, suggestions : {<<>>}] :
              D \in {X \in SUBSET InputSignals : Cardinality(X) <= MaxDetected}}

-----------------------------------------------------------------------------
(* The caller of findMisticaEquivalents (MisticaTools.mapFigmaToMistica) *)

InitMapper ==
    /\ mapperCall \in MapperCalls
    /\ searchCall = NotUsed
    /\ extractCall = NotUsed
    /\ colorCall = NotUsed
    /\ typoCall = NotUsed
    /\ pipeline = NotUsed
    /\ scraper = NotUsed
    /\ request = NotUsed
    /\ cacheManager = NotUsed
    /\ rateLimiter = NotUsed

FindMisticaEquivalents ==
    /\ mapperCall.pc = "called"
    /\ mapperCall' =
           [mapperCall EXCEPT
               !.pc = "returned",
               !.suggestions = findMisticaEquivalents(mapperCall.elements,
                                   mapperCall.structure, mapperCall.patterns,
                                   mapperCall.allComponents)]
    /\ UNCHANGED <<searchCall, extractCall, colorCall, typoCall, pipeline, scraper, request,
                   cacheManager, rateLimiter>>

NextMapper == FindMisticaEquivalents

SpecMapper == InitMapper /\ [][NextMapper]_vars


-----------------------------------------------------------------------------
(* SearchEngine *)

IsTermSeparator(c) == IsSpace(c) \/ c = "-" \/ c = "_"

\* String.prototype.split(/[\s\-_]+/): the pieces between the runs of separators,
\* empty pieces at the ends included
RECURSIVE SplitFrom(_, _, _)
SplitFrom(s, i, piece) ==
    IF i > Len(s) THEN <<piece>>
    ELSE LET c == SubSeq(s, i, i)
         IN IF ~IsTermSeparator(c) THEN SplitFrom(s, i + 1, piece \o c)
            ELSE IF i > 1 /\ IsTermSeparator(SubSeq(s, i - 1, i - 1))
                 THEN SplitFrom(s, i + 1, piece)
                 ELSE <<piece>> \o SplitFrom(s, i + 1, "")

extractSearchTerms(query) ==
    LET LongEnough(term) == Len(term) > 1
        terms == SelectSeq(SplitFrom(query, 1, ""), LongEnough)
    IN Unique(<<query>> \o terms)

extractContextualKeywords(query) ==
    (IF Includes(query, "fixed") \/ Includes(query, "footer")
     THEN <<"layout", "footer", "fixed">> ELSE <<>>)
    \o (IF Includes(query, "header") THEN <<"layout", "header", "navigation">> ELSE <<>>)
    \o (IF Includes(query, "modal") THEN <<"overlay", "dialog", "popup">> ELSE <<>>)
    \o (IF Includes(query, "card") THEN <<"container", "content", "card">> ELSE <<>>)
    \o (IF Includes(query, "form") THEN <<"input", "field", "form", "validation">> ELSE <<>>)
    \o (IF Includes(query, "list") THEN <<"list", "item", "collection">> ELSE <<>>)
    \o (IF Includes(query, "button") THEN <<"action", "click", "interactive">> ELSE <<>>)
    \o (IF Includes(query, "input") \/ Includes(query, "field")
        THEN <<"form", "data", "entry">> ELSE <<>>)
    \o (IF Includes(query, "pin") \/ Includes(query, "security") \/ Includes(query, "code")
        THEN <<"security", "authentication", "input">> ELSE <<>>)

getExpandedTermMappings(term) ==
    CASE term = "pin" -> <<"pinfield", "code", "security", "input", "verification">>
      [] term = "pinfield" -> <<"pin", "code", "security", "otp", "verification">>
      [] term = "field" -> <<"textfield", "input", "form", "entry">>
      [] term = "input" -> <<"textfield", "field", "entry", "form">>
      [] term = "code" -> <<"pin", "otp", "verification", "security">>
      [] term = "security" -> <<"pin", "otp", "verification", "authentication">>
      [] term = "footer" -> <<"layout", "fixed", "bottom", "sticky">>
      [] term = "header" -> <<"layout", "top", "navigation", "navbar">>
      [] term = "fixed" -> <<"footer", "header", "layout", "sticky">>
      [] term = "layout" -> <<"grid", "stack", "box", "container", "wrapper">>
      [] term = "modal" -> <<"dialog", "popup", "overlay", "sheet">>
      [] term = "button" -> <<"action", "click", "primary", "secondary", "cta">>
      [] term = "primary" -> <<"button", "main", "action">>
      [] term = "secondary" -> <<"button", "auxiliary", "action">>
      [] term = "navigation" -> <<"navbar", "menu", "tabs", "breadcrumb">>
      [] term = "navbar" -> <<"navigation", "menu", "header">>
      [] term = "menu" -> <<"navigation", "dropdown", "list">>
      [] term = "card" -> <<"container", "content", "box">>
      [] term = "list" -> <<"item", "collection", "menu">>
      [] term = "text" -> <<"label", "title", "heading", "paragraph">>
      [] term = "icon" -> <<"symbol", "graphic", "visual">>
      [] term = "loading" -> <<"spinner", "progress", "wait">>
      [] term = "error" -> <<"feedback", "alert", "warning">>
      [] term = "success" -> <<"feedback", "confirmation", "check">>
      [] term = "form" -> <<"input", "field", "validation", "submit">>
      [] term = "validation" -> <<"error", "check", "verify">>
      [] term = "submit" -> <<"button", "action", "send">>
      [] term = "table" -> <<"data", "grid", "list", "row">>
      [] term = "chart" -> <<"graph", "visualization", "data">>
      [] term = "mistica" -> <<"telefonica", "brand", "design", "system">>
      [] term = "telefonica" -> <<"mistica", "brand", "company">>
      [] OTHER -> <<>>

\* sum of f(s[i]) over a sequence
SumOver(s, f(_)) ==
    LET RECURSIVE From(_)
        From(i) == IF i > Len(s) THEN 0 ELSE f(s[i]) + From(i + 1)
    IN From(1)

\* The accented words of the source ("codigo", "seguranca", "rodape") are written
\* without their accents, here and in the catalogs.
getFunctionalityScore(component, originalQuery, searchTerms) ==
    LET name == ToLowerCase(component.name)
        description == ToLowerCase(component.description)
        OfTerm(term) ==
            CASE term \in {"pinfield", "pin field", "pin code", "security"} ->
                    (IF Includes(name, "pin") \/ Includes(name, "code")
                        \/ Includes(name, "security") THEN 60 ELSE 0)
                    + (IF Includes(description, "codigo") \/ Includes(description, "pin")
                          \/ Includes(description, "seguranca") THEN 40 ELSE 0)
              [] term \in {"fixed footer", "footer layout", "button fixed footer"} ->
                    (IF Includes(name, "footer") \/ Includes(name, "layout")
                        \/ Includes(name, "fixed") THEN 60 ELSE 0)
                    + (IF Includes(description, "footer") \/ Includes(description, "rodape")
                          \/ Includes(description, "fixo") THEN 40 ELSE 0)
              [] term \in {"input", "field"} ->
                    (IF Includes(name, "input") \/ Includes(name, "field")
                        \/ Includes(name, "textfield") THEN 50 ELSE 0)
              [] term \in {"text", "label"} ->
                    (IF Includes(name, "text") \/ Includes(name, "label")
                        \/ Includes(name, "title") THEN 45 ELSE 0)
              [] OTHER -> 0
    IN SumOver(searchTerms \o <<originalQuery>>, OfTerm)

\* the name-match addition of one search term
NameMatchScore(name, term) ==
    (IF name = term THEN 90 ELSE 0)
    + (IF Includes(name, term)
       THEN IF StartsWith(name, term) THEN 80
            ELSE IF EndsWith(name, term) THEN 70
            ELSE 60
       ELSE 0)

\* the score of an exact match of the name with the query
ExactMatchScore == 100

calculateRelevanceScore(component, originalQuery, searchTerms, contextualKeywords) ==
    LET name == ToLowerCase(component.name)
        category == ToLowerCase(component.category)
        description == ToLowerCase(component.description)
        OfName(term) == NameMatchScore(name, term)
        OfMapped(mappedTerm) ==
            (IF Includes(name, mappedTerm) THEN 50 ELSE 0)
            + (IF Includes(description, mappedTerm) THEN 30 ELSE 0)
        OfExpansion(term) == SumOver(getExpandedTermMappings(term), OfMapped)
        OfKeyword(keyword) ==
            (IF Includes(name, keyword) THEN 40 ELSE 0)
            + (IF Includes(description, keyword) THEN 25 ELSE 0)
            + (IF Includes(category, keyword) THEN 20 ELSE 0)
        OfCategory(term) ==
            IF category = term \/ category = term \o "s" \/ term = category \o "s"
            THEN 35 ELSE 0
    IN IF name = originalQuery THEN ExactMatchScore
       ELSE SumOver(searchTerms, OfName)
            + SumOver(searchTerms, OfExpansion)
            + SumOver(contextualKeywords, OfKeyword)
            + SumOver(searchTerms, OfCategory)
            + getFunctionalityScore(component, originalQuery, searchTerms)

\* the score smartSearchComponents gives a component for a query
ScoreFor(component, query) ==
    LET normalizedQuery == Trim(ToLowerCase(query))
    IN calculateRelevanceScore(component, normalizedQuery,
                               extractSearchTerms(normalizedQuery),
                               extractContextualKeywords(normalizedQuery))

\* !query || query.trim() === ""
IsBlank(query) == query = "" \/ Trim(query) = ""

\* a search that answers a blank query with an empty list
smartSearchComponentsNoneForBlank(components, query) ==
    IF IsBlank(query) THEN <<>>
    ELSE LET scored == [i \in 1..Len(components) |->
                           [component |-> components[i],
                            score |-> ScoreFor(components[i], query)]]
             Positive(item) == item.score > 0
             sorted == SortByScoreDesc(SelectSeq(scored, Positive))
         IN [i \in 1..Len(sorted) |-> sorted[i].component]

smartSearchComponents(components, query) ==
    IF IsBlank(query) THEN components
    ELSE LET scored == [i \in 1..Len(components) |->
                           [component |-> components[i],
                            score |-> ScoreFor(components[i], query)]]
             Positive(item) == item.score > 0
             sorted == SortByScoreDesc(SelectSeq(scored, Positive))
         IN [i \in 1..Len(sorted) |-> sorted[i].component]

-----------------------------------------------------------------------------
(* SearchEngine.searchMultipleTerms *)

\* a bonus that does not fall with the position
scoreBonusOfFirst(index) == 50

\* Math.max(0, 50 - index * 5), index counted from 0
scoreBonus(index) == Max(0, 50 - index * 5)

\* allResults is the Map in the order of its insertions. results.forEach of
\* one term: the bonus is added to the entry of the name, or a new entry is
\* set with the component
AddResults(allResults, results) ==
    LET RECURSIVE From(_, _)
        From(all, i) ==
            IF i > Len(results) THEN all
            ELSE LET comp == results[i]
                     Existing(k) == all[k].component.name = comp.name
                 IN IF \E k \in 1..Len(all) : Existing(k)
                    THEN From([k \in 1..Len(all) |->
                                 IF Existing(k)
                                 THEN [all[k] EXCEPT !.totalScore = @ + scoreBonus(i - 1)]
                                 ELSE all[k]], i + 1)
                    ELSE From(Append(all, [component |-> comp,
                                           totalScore |-> scoreBonus(i - 1)]), i + 1)
    IN From(allResults, 1)

\* sort((a, b) => b.totalScore - a.totalScore), which is stable
SortByTotalScore(items) ==
    LET Before(i) == Cardinality({j \in 1..Len(items) :
                         \/ items[j].totalScore > items[i].totalScore
                         \/ items[j].totalScore = items[i].totalScore /\ j < i})
    IN [p \in 1..Len(items) |-> items[CHOOSE i \in 1..Len(items) : Before(i) = p - 1]]

searchMultipleTerms(components, terms) ==
    LET RECURSIVE Over(_, _)
        Over(allResults, t) ==
            IF t > Len(terms) THEN allResults
            ELSE Over(AddResults(allResults, smartSearchComponents(components, terms[t])),
                      t + 1)
        sorted == SortByTotalScore(Over(<<>>, 1))
    IN [i \in 1..Len(sorted) |-> sorted[i].component]

\* a call passes at most this many terms
MaxTerms == 2

TermPool == {"", "button", "icon", "stack"}

TermLists == UNION {[1..n -> TermPool] : n \in 0..MaxTerms}

\* catalogs of different components, two of which may have the same name in
\* two categories
MultipleTermsCatalogs ==
    {<<Component("Stack", "layout", "Vertical spacing"),
       Component("IconButton", "components", "Icon to click"),
       Component("Button", "components", "Base action"),
       Component("ButtonPrimary", "components", "Main action")>>,
     <<Component("ButtonPrimary", "components", "Main action"),
       Component("Button", "components", "Base action"),
       Component("Button", "lab", "Base action of the lab")>>,
     <<Component("IconButton", "components", "Icon to click"),
       Component("Stack", "layout", "Vertical spacing")>>,
     <<>>}

InitSearchMultiple ==
    /\ searchCall \in [pc : {"called"}, components : MultipleTermsCatalogs,
                       terms : TermLists, results : {<<>>}]
    /\ mapperCall = NotUsed
    /\ extractCall = NotUsed
    /\ colorCall = NotUsed
    /\ typoCall = NotUsed
    /\ pipeline = NotUsed
    /\ scraper = NotUsed
    /\ request = NotUsed
    /\ cacheManager = NotUsed
    /\ rateLimiter = NotUsed

SearchMultipleTerms ==
    /\ searchCall.pc = "called"
    /\ searchCall' =
           [searchCall EXCEPT
               !.pc = "returned",
               !.results = searchMultipleTerms(searchCall.components, searchCall.terms)]
    /\ UNCHANGED <<mapperCall, extractCall, colorCall, typoCall, pipeline, scraper, request,
                   cacheManager, rateLimiter>>

NextSearchMultiple == SearchMultipleTerms

SpecSearchMultiple == InitSearchMultiple /\ [][NextSearchMultiple]_vars

-----------------------------------------------------------------------------
(* findMisticaEquivalents called for a layout with a button in a fixed footer *)

\* the families detected next to the layout
FooterCompanions == {"buttons", "texts", "lists", "inputs", "navigation"}

\* the calls whose elements have a fixed footer that holds a button, with any
\* of the companions detected
FooterCalls ==
    UNION {{call \in [pc : {"called"}, elements : ElementsWith(D \cup {"layouts"}),
                      structure : StructureWith({}), patterns : {PatternsWith({})},
                      allComponents : Catalogs \ {<<>>}, suggestions : {<<>>}] :
               /\ call.elements.layouts.hasFixedFooter
               /\ call.elements.layouts.containsButtonInFooter} :
              D \in SUBSET FooterCompanions}

InitMapperFooter ==
    /\ mapperCall \in FooterCalls
    /\ searchCall = NotUsed
    /\ extractCall = NotUsed
    /\ colorCall = NotUsed
    /\ typoCall = NotUsed
    /\ pipeline = NotUsed
    /\ scraper = NotUsed
    /\ request = NotUsed
    /\ cacheManager = NotUsed
    /\ rateLimiter = NotUsed

SpecMapperFooter == InitMapperFooter /\ [][NextMapper]_vars

-----------------------------------------------------------------------------

(* findMisticaEquivalents called without a catalog *)

\* the call reads a member of allComponents: filter in findComponentsByPattern,
\* find for a candidate name of a detected family or for a name of a pattern
\* that is set
ReadsCatalog(elements, structure, patterns) ==
    \/ elements.layouts.hasFixedFooter /\ elements.layouts.containsButtonInFooter
    \/ elements.security.hasPinField \/ elements.security.hasCodeInput
    \/ \E t \in 1..Len(ElementTypes) :
           /\ createElementMappings(elements, structure)[ElementTypes[t]].detected
           /\ createElementMappings(elements, structure)[ElementTypes[t]].misticaComponents
                  # <<>>
    \/ \E n \in PatternNames : patterns[n]

\* allComponents is null or undefined: reading a member of it throws a
\* TypeError, and a call that reads none goes on as with any catalog
findMisticaEquivalentsWithoutCatalog(elements, structure, patterns) ==
    IF ReadsCatalog(elements, structure, patterns)
    THEN [threw |-> "TypeError", suggestions |-> <<>>]
    ELSE [threw |-> "",
          suggestions |-> findMisticaEquivalents(elements, structure, patterns, <<>>)]

InitMapperWithoutCatalog ==
    /\ mapperCall \in {call \in MapperCalls : call.allComponents = <<>>}
    /\ searchCall = NotUsed
    /\ extractCall = NotUsed
    /\ colorCall = NotUsed
    /\ typoCall = NotUsed
    /\ pipeline = NotUsed
    /\ scraper = NotUsed
    /\ request = NotUsed
    /\ cacheManager = NotUsed
    /\ rateLimiter = NotUsed

\* the catalog of the call is left out: the caller passes null
FindMisticaEquivalentsWithoutCatalog ==
    /\ mapperCall.pc = "called"
    /\ mapperCall' =
           [pc |-> "returned", elements |-> mapperCall.elements,
            structure |-> mapperCall.structure, patterns |-> mapperCall.patterns,
            outcome |-> findMisticaEquivalentsWithoutCatalog(mapperCall.elements,
                            mapperCall.structure, mapperCall.patterns)]
    /\ UNCHANGED <<searchCall, extractCall, colorCall, typoCall, pipeline, scraper, request,
                   cacheManager, rateLimiter>>

NextMapperWithoutCatalog == FindMisticaEquivalentsWithoutCatalog

SpecMapperWithoutCatalog == InitMapperWithoutCatalog /\ [][NextMapperWithoutCatalog]_vars

-----------------------------------------------------------------------------

(* Arguments of smartSearchComponents *)

\* a catalog passed to the search holds at most this many components
MaxCatalog == 4

SearchPool ==
    {Component("Button", "components", "Base action"),
     Component("ButtonPrimary", "components", "Main action"),
     Component("ButtonSecondary", "components", "Other action"),
     Component("IconButton", "components", "Icon to click"),
     Component("PinField", "components", "Campo de codigo PIN"),
     Component("Stack", "layout", "Vertical spacing")}

\* the catalogs: every arrangement of at most MaxCatalog different components
RECURSIVE Arrangements(_)
Arrangements(n) ==
    IF n = 0 THEN {<<>>}
    ELSE LET shorter == Arrangements(n - 1)
         IN shorter \cup {Append(a, c) : a \in {x \in shorter : Len(x) = n - 1},
                                        c \in SearchPool}

SearchCatalogs ==
    {a \in Arrangements(MaxCatalog) : \A i, j \in 1..Len(a) : i # j => a[i] # a[j]}

Queries ==
    {"", " ", " \t ", "button", " Button ", "BUTTONPRIMARY", "pin field",
     "icon-button", "layouts", "stack", "zebra"}

InitSearch ==
    /\ searchCall \in
           [pc : {"called"}, components : SearchCatalogs, query : Queries, results : {<<>>}]
    /\ mapperCall = NotUsed
    /\ extractCall = NotUsed
    /\ colorCall = NotUsed
    /\ typoCall = NotUsed
    /\ pipeline = NotUsed
    /\ scraper = NotUsed
    /\ request = NotUsed
    /\ cacheManager = NotUsed
    /\ rateLimiter = NotUsed

SmartSearchComponents ==
    /\ searchCall.pc = "called"
    /\ searchCall' =
           [searchCall EXCEPT
               !.pc = "returned",
               !.results = smartSearchComponents(searchCall.components, searchCall.query)]
    /\ UNCHANGED <<mapperCall, extractCall, colorCall, typoCall, pipeline, scraper, request,
                   cacheManager, rateLimiter>>

NextSearch == SmartSearchComponents

SpecSearch == InitSearch /\ [][NextSearch]_vars

-----------------------------------------------------------------------------
(* Regular expressions of the JavaScript runtime, flags g and i *)

\* The patterns are written lowercased: under the i flag a literal and a
\* character class match without regard to case.
Lit(s) == [k |-> "lit", s |-> s]
OneOf(chars) == [k |-> "set", chars |-> chars, neg |-> FALSE]
NoneOf(chars) == [k |-> "set", chars |-> chars, neg |-> TRUE]
Cat(rs) == [k |-> "cat", of |-> rs]
Alt(rs) == [k |-> "alt", of |-> rs]
Star(r) == [k |-> "star", r |-> r, greedy |-> TRUE]
LazyStar(r) == [k |-> "star", r |-> r, greedy |-> FALSE]
Plus(r) == Cat(<<r, Star(r)>>)
Opt(r) == Alt(<<r, Lit("")>>)
Group(n, r) == [k |-> "group", n |-> n, r |-> r]
BackRef(n) == [k |-> "ref", n |-> n]
WordBoundary == [k |-> "wb"]
LineStart == [k |-> "bol"]

CharsOf(s) == {SubSeq(s, i, i) : i \in 1..Len(s)}
DigitChars == CharsOf("0123456789")
LetterChars == CharsOf(LowerChars)
WordChars == LetterChars \cup DigitChars \cup {"_"}
SpaceChars == {" ", "\t", "\n"}

Digit == OneOf(DigitChars)
WordChar == OneOf(WordChars)
Space == OneOf(SpaceChars)
\* . matches every character but a line terminator, [\s\S] every character
Dot == NoneOf({"\n"})
AnyChar == NoneOf({})
AnyOf(words) == Alt([i \in 1..Len(words) |-> Lit(words[i])])

\* the string a pattern is run on, with its lowercased copy
Subject(code) ==
    [text |-> code, low |-> ToLowerCase(code), len |-> Len(code), fold |-> TRUE]

\* the capture groups before a match attempt: none has participated
NoCaptures == <<"", "", "">>

\* The ways a pattern matches at a position, in the order a backtracking
\* matcher tries them: each a record of the position after the match and the
\* capture groups.
InClass(r, subj, p) == (SubSeq(subj.low, p, p) \in r.chars) # r.neg

\* the position after the longest run of characters of a class, looked for
\* eight characters at a time
RECURSIVE RunEnd(_, _, _)
RunEnd(r, subj, p) ==
    LET Within(last, others) ==
            IF others = {} THEN RunEnd(r, subj, last + 1)
            ELSE CHOOSE q \in others : \A k \in others : q <= k
        UpTo(last) == Within(last, {q \in p..last : ~InClass(r, subj, q)})
    IN IF p > subj.len THEN p
       ELSE UpTo(IF p + 7 < subj.len THEN p + 7 ELSE subj.len)

RECURSIVE Run(_, _, _)
RECURSIVE RunAll(_, _, _)
RunAll(r, subj, states) ==
    IF states = <<>> THEN <<>>
    ELSE IF Len(states) = 1 THEN Run(r, subj, states[1])
    ELSE LET half == Len(states) \div 2
         IN RunAll(r, subj, SubSeq(states, 1, half))
            \o RunAll(r, subj, SubSeq(states, half + 1, Len(states)))

RECURSIVE RunCat(_, _, _, _)
RunCat(rs, i, subj, states) ==
    IF i > Len(rs) \/ states = <<>> THEN states
    ELSE RunCat(rs, i + 1, subj, RunAll(rs[i], subj, states))

Run(r, subj, st) ==
    CASE r.k = "lit" ->
            LET n == Len(r.s)
            IN IF st.pos + n - 1 <= subj.len
                  /\ SubSeq(subj.low, st.pos, st.pos + n - 1) = r.s
               THEN <<[st EXCEPT !.pos = @ + n]>> ELSE <<>>
      [] r.k = "set" ->
            IF st.pos <= subj.len /\ InClass(r, subj, st.pos)
            THEN <<[st EXCEPT !.pos = @ + 1]>> ELSE <<>>
      [] r.k = "cat" -> RunCat(r.of, 1, subj, <<st>>)
      [] r.k = "alt" -> Flatten([i \in 1..Len(r.of) |-> Run(r.of[i], subj, st)])
      [] r.k = "star" /\ r.r.k = "set" ->
            \* a repeated character class: every length up to the longest run of
            \* characters of the class, the longest first if greedy
            LET Lengths(n) ==
                    [i \in 1..(n + 1) |->
                        [st EXCEPT !.pos = IF r.greedy THEN @ + n + 1 - i ELSE @ + i - 1]]
            IN Lengths(RunEnd(r.r, subj, st.pos) - st.pos)
      [] r.k = "star" /\ r.r.k # "set" ->
            LET Advanced(next) == next.pos > st.pos
                Ordered(more) == IF r.greedy THEN Append(more, st) ELSE <<st>> \o more
            IN Ordered(RunAll(r, subj, SelectSeq(Run(r.r, subj, st), Advanced)))
      [] r.k = "group" ->
            LET Captured(ends) ==
                    [i \in 1..Len(ends) |->
                        [ends[i] EXCEPT
                            !.caps[r.n] = SubSeq(subj.text, st.pos, ends[i].pos - 1)]]
            IN Captured(Run(r.r, subj, st))
      [] r.k = "ref" ->
            LET Again(s) ==
                    IF st.pos + Len(s) - 1 <= subj.len
                       /\ SubSeq(subj.low, st.pos, st.pos + Len(s) - 1) = s
                    THEN <<[st EXCEPT !.pos = @ + Len(s)]>> ELSE <<>>
            IN Again(IF subj.fold THEN ToLowerCase(st.caps[r.n]) ELSE st.caps[r.n])
      [] r.k = "wb" ->
            LET IsWordAt(p) ==
                    p >= 1 /\ p <= subj.len /\ LowerChar(SubSeq(subj.low, p, p)) \in WordChars
            IN IF IsWordAt(st.pos - 1) # IsWordAt(st.pos) THEN <<st>> ELSE <<>>
      [] r.k = "bol" -> IF st.pos = 1 THEN <<st>> ELSE <<>>

MatchAt(r, subj, i) == Run(r, subj, [pos |-> i, caps |-> NoCaptures])

\* RegExp.prototype.test of a fresh pattern
Test(r, code) ==
    LET Somewhere(subj) == \E i \in 1..(subj.len + 1) : MatchAt(r, subj, i) # <<>>
    IN Somewhere(Subject(code))

\* the least number of a set of positions, 0 if there is none
Least(positions) ==
    IF positions = {} THEN 0 ELSE CHOOSE i \in positions : \A j \in positions : i <= j

\* the successive matches of the exec loop of a g pattern, or of
\* String.prototype.match: each the text matched and its capture groups
RECURSIVE MatchesFrom(_, _, _)
MatchesFrom(r, subj, from) ==
    LET Found(i, m) ==
            <<[text |-> SubSeq(subj.text, i, m.pos - 1), caps |-> m.caps]>>
            \o MatchesFrom(r, subj, IF m.pos = i THEN i + 1 ELSE m.pos)
        From(i) == IF i = 0 THEN <<>> ELSE Found(i, MatchAt(r, subj, i)[1])
    IN From(Least({i \in from..(subj.len + 1) : MatchAt(r, subj, i) # <<>>}))

Matches(r, code) == MatchesFrom(r, Subject(code), 1)

\* patterns.some((p) => p.test(code))
TestSome(rs, code) == \E i \in 1..Len(rs) : Test(rs[i], code)

-----------------------------------------------------------------------------
(* ElementExtractor *)

\* [\s\S]*? and .*
Lazily == LazyStar(AnyChar)
Anything == Star(Dot)
\* a.*b
Before(a, b) == Cat(<<Lit(a), Anything, Lit(b)>>)

\* (code.match(pattern) || []).length
CountOf(r, code) == Len(Matches(r, code))

\* every match of every pattern of a table, pattern after pattern
AllMatches(patterns, code) ==
    Flatten([i \in 1..Len(patterns) |-> Matches(patterns[i], code)])

\* the labels whose pattern the code passes, in the order of the table:
\* if (pattern.test(code)) list.push(label)
Labelled(table, code) ==
    LET Passes(row) == Test(row[1], code)
        Labels(rows) == [i \in 1..Len(rows) |-> rows[i][2]]
    IN Labels(SelectSeq(table, Passes))

detectButtonVariants(code) ==
    Labelled(<< <<Lit("primary"), "primary">>,
                <<Lit("secondary"), "secondary">>,
                <<AnyOf(<<"danger", "error">>), "danger">>,
                <<Lit("link"), "link">>,
                <<Alt(<<Before("icon", "button"), Lit("iconbutton")>>), "icon">> >>, code)

detectButtonPositions(code) ==
    LET footer ==
            IF Test(Alt(<<Before("footer", "button"), Before("button", "footer"),
                          Before("bottom", "button"),
                          Cat(<<Lit("fixed"), Anything, Lit("bottom"), Anything,
                                Lit("button")>>)>>), code)
            THEN <<"footer">> ELSE <<>>
        header ==
            IF Test(Alt(<<Before("header", "button"), Before("button", "header"),
                          Before("top", "button"), Before("navigation", "button")>>), code)
            THEN <<"header">> ELSE <<>>
        WithInline(positions) ==
            IF positions = <<>>
               \/ Test(Alt(<<Before("inline", "button"), Before("content", "button")>>),
                       code)
            THEN Append(positions, "inline") ELSE positions
    IN WithInline(footer \o header)

extractButtons(code) ==
    LET patterns ==
            <<Cat(<<AnyOf(<<"button", "btn", "touchableopacity", "pressable">>), Lazily,
                    AnyOf(<<"onpress", "onclick", "press">>)>>),
              Cat(<<Lit("<button"), Lazily, Lit(">")>>),
              Cat(<<Lit("button"), Star(WordChar), Star(Space), Lit("{")>>)>>
    IN [found |-> TestSome(patterns, code),
        count |-> CountOf(AnyOf(<<"button", "touchableopacity", "pressable">>), code),
        hasActions |-> Test(AnyOf(<<"onpress", "onclick", "press", "tap">>), code),
        variants |-> detectButtonVariants(code),
        positions |-> detectButtonPositions(code)]

\* text-preset-N/, text-preset-N-, title.*N, TitleN, heading.*N
HierarchyLevel(n) ==
    Alt(<<Lit("text-preset-" \o n \o "/"), Lit("text-preset-" \o n \o "-"),
          Before("title", n), Lit("title" \o n), Before("heading", n)>>)

\* /x, text.*x, -x
HierarchyWeight(w) == Alt(<<Lit("/" \o w), Before("text", w), Lit("-" \o w)>>)

detectTextHierarchy(code) ==
    Labelled(<< <<HierarchyLevel("1"), "text1">>,
                <<HierarchyLevel("2"), "text2">>,
                <<HierarchyLevel("3"), "text3">>,
                <<HierarchyLevel("4"), "text4">>,
                <<HierarchyLevel("5"), "text5">>,
                <<HierarchyLevel("6"), "text6">>,
                <<HierarchyWeight("regular"), "regular">>,
                <<HierarchyWeight("medium"), "medium">>,
                <<HierarchyWeight("bold"), "bold">>,
                <<HierarchyWeight("light"), "light">>,
                <<Alt(<<Lit("h1"), Before("title", "1")>>), "h1">>,
                <<Alt(<<Lit("h2"), Before("title", "2")>>), "h2">>,
                <<Alt(<<Lit("h3"), Before("title", "3")>>), "h3">>,
                <<Lit("subtitle"), "subtitle">>,
                <<AnyOf(<<"body", "paragraph", "p>">>), "body">> >>, code)

\* parseInt of a string of decimal digits
DigitValue(c) == CHOOSE d \in 0..9 : SubSeq("0123456789", d + 1, d + 1) = c

RECURSIVE ParseInt(_)
ParseInt(s) ==
    IF s = "" THEN 0
    ELSE 10 * ParseInt(SubSeq(s, 1, Len(s) - 1)) + DigitValue(SubSeq(s, Len(s), Len(s)))

\* Confidence scores are counted in tenths: 10 is 1.0.
detectPresetsByName(code) ==
    LET figmaPattern ==
            Cat(<<Lit("text-preset-"), Group(1, Plus(Digit)), Group(2, OneOf({"/", "-"})),
                  Group(3, Plus(WordChar))>>)
        Presets(found) ==
            [i \in 1..Len(found) |->
                [preset |-> "text" \o found[i].caps[1],
                 variant |-> found[i].caps[3],
                 originalName |-> found[i].text,
                 confidenceScore |-> 10]]
    IN Presets(Matches(figmaPattern, code))

textPresetMapping ==
    <<[preset |-> "text1", minFontSize |-> 28, maxFontSize |-> 40],
      [preset |-> "text2", minFontSize |-> 20, maxFontSize |-> 28],
      [preset |-> "text3", minFontSize |-> 16, maxFontSize |-> 20],
      [preset |-> "text4", minFontSize |-> 14, maxFontSize |-> 16],
      [preset |-> "text5", minFontSize |-> 12, maxFontSize |-> 14],
      [preset |-> "text6", minFontSize |-> 10, maxFontSize |-> 12]>>

guessVariantFromWeight(weight) ==
    CASE weight = "300" -> "light"
      [] weight = "400" -> "regular"
      [] weight \in {"500", "600"} -> "medium"
      [] weight \in {"700", "800", "900"} -> "bold"
      [] weight = "normal" -> "regular"
      [] weight = "bold" -> "bold"
      [] weight = "medium" -> "medium"
      [] weight = "light" -> "light"
      [] OTHER -> "regular"

Quote == OneOf({"'", "\""})

fontSizePatterns ==
    <<Cat(<<Lit("font-size:"), Star(Space), Group(1, Plus(Digit)), Lit("px")>>),
      Cat(<<Lit("fontsize:"), Star(Space), Opt(Quote), Group(1, Plus(Digit)), Lit("px"),
            Opt(Quote)>>),
      Cat(<<Lit("fontsize:"), Star(Space), Lit("{"), Group(1, Plus(Digit)), Lit("}")>>),
      Cat(<<Lit("fontsize={"), Group(1, Plus(Digit)), Lit("}")>>),
      Alt(<<Cat(<<Lit("text-"), Group(1, Plus(Digit))>>),
            Cat(<<Lit("size-"), Group(2, Plus(Digit))>>)>>)>>

fontWeightPatterns ==
    <<Cat(<<Lit("font-weight:"), Star(Space), Group(1, Plus(Digit))>>),
      Cat(<<Lit("fontweight:"), Star(Space), Opt(Quote), Group(1, Plus(Digit)), Opt(Quote)>>),
      Cat(<<Lit("fontweight:"), Star(Space), Opt(Quote),
            Group(1, AnyOf(<<"normal", "bold", "medium", "light">>)), Opt(Quote)>>),
      Cat(<<Lit("fontweight={"), Opt(Quote), Group(1, Plus(WordChar)), Opt(Quote),
            Lit("}")>>)>>

\* match[1] || match[2] of every match of every pattern of a list, in order
FirstCaptures(found) ==
    [i \in 1..Len(found) |->
        IF found[i].caps[1] # "" THEN found[i].caps[1] ELSE found[i].caps[2]]

\* the font sizes of the code: parseInt of every size matched, those that are
\* zero left out
DetectedFontSizes(code) ==
    LET Positive(size) == size > 0
        Parsed(sizes) == [i \in 1..Len(sizes) |-> ParseInt(sizes[i])]
    IN SelectSeq(Parsed(FirstCaptures(AllMatches(fontSizePatterns, code))), Positive)

DetectedFontWeights(code) ==
    LET NotEmpty(weight) == weight # ""
    IN SelectSeq(FirstCaptures(AllMatches(fontWeightPatterns, code)), NotEmpty)

\* detectedFonts: one font for every size; every weight found overwrites the
\* weight of the last font, "" stands for a font without weight
DetectedFonts(fontSizes, weights) ==
    [i \in 1..Len(fontSizes) |->
        [fontSize |-> fontSizes[i],
         weight |-> IF i = Len(fontSizes) /\ weights # <<>>
                    THEN weights[Len(weights)] ELSE ""]]

\* textPresetMapping.find: the place of the first row the size fits, 0 if none
PresetOf(size) ==
    Least({k \in 1..Len(textPresetMapping) :
              /\ size >= textPresetMapping[k].minFontSize
              /\ size <= textPresetMapping[k].maxFontSize})

PresetsOfFonts(detectedFonts) ==
    LET Mapped(font) == PresetOf(font.fontSize) # 0
        Presets(mapped) ==
            [i \in 1..Len(mapped) |->
                [preset |-> textPresetMapping[PresetOf(mapped[i].fontSize)].preset,
                 variant |-> guessVariantFromWeight(mapped[i].weight),
                 originalName |->
                     "Detectado por CSS: " \o ToString(mapped[i].fontSize) \o "px"
                     \o (IF mapped[i].weight # ""
                         THEN ", peso: " \o mapped[i].weight ELSE ""),
                 confidenceScore |-> 7]]
    IN Presets(SelectSeq(detectedFonts, Mapped))

detectPresetsByCSSProperties(code) ==
    PresetsOfFonts(DetectedFonts(DetectedFontSizes(code), DetectedFontWeights(code)))

Tag(name) == Cat(<<Lit("<" \o name), Lazily, Lit(">")>>)

semanticRules ==
    <<[pattern |-> Alt(<<Tag("h1"), Tag("title"),
                         Cat(<<Lit("class"), Anything, Lit("title"), Anything,
                               Lit("main")>>)>>),
       preset |-> "text1", confidence |-> 6],
      [pattern |-> Alt(<<Tag("h2"), Before("class", "subtitle"),
                         Before("class", "heading-2")>>),
       preset |-> "text2", confidence |-> 6],
      [pattern |-> Alt(<<Tag("h3"), Before("class", "heading-3"),
                         Before("class", "section-title")>>),
       preset |-> "text3", confidence |-> 5],
      [pattern |-> Alt(<<Tag("p"), Before("class", "body"), Before("class", "paragraph")>>),
       preset |-> "text4", confidence |-> 4],
      [pattern |-> Alt(<<Before("class", "caption"), Before("class", "small"),
                         Before("class", "footnote")>>),
       preset |-> "text5", confidence |-> 4]>>

detectPresetsBySemanticContext(code) ==
    LET Passes(rule) == Test(rule.pattern, code)
        Presets(rules) ==
            [i \in 1..Len(rules) |->
                [preset |-> rules[i].preset,
                 variant |-> "regular",
                 originalName |-> "Detectado por contexto semantico",
                 confidenceScore |-> rules[i].confidence]]
    IN Presets(SelectSeq(semanticRules, Passes))

PresetKey(preset) == preset.preset \o "-" \o preset.variant

\* a map in which every preset set takes the place of the one of its key
RECURSIVE UniqueByKeyOverwritten(_)
UniqueByKeyOverwritten(presets) ==
    LET Set(front, last, i) ==
            IF i = 0 THEN Append(front, last) ELSE [front EXCEPT ![i] = last]
        With(front, last) ==
            Set(front, last,
                Least({i \in 1..Len(front) : PresetKey(front[i]) = PresetKey(last)}))
    IN IF presets = <<>> THEN <<>>
       ELSE With(UniqueByKeyOverwritten(SubSeq(presets, 1, Len(presets) - 1)),
                 presets[Len(presets)])

\* uniqueMap after the presets were set one by one: a key keeps the place of its
\* first entry and the first entry of the highest confidence
RECURSIVE UniqueByKey(_)
UniqueByKey(presets) ==
    LET Set(front, last, i) ==
            IF i = 0 THEN Append(front, last)
            ELSE IF last.confidenceScore > front[i].confidenceScore
                 THEN [front EXCEPT ![i] = last] ELSE front
        With(front, last) ==
            Set(front, last,
                Least({i \in 1..Len(front) : PresetKey(front[i]) = PresetKey(last)}))
    IN IF presets = <<>> THEN <<>>
       ELSE With(UniqueByKey(SubSeq(presets, 1, Len(presets) - 1)), presets[Len(presets)])

RECURSIVE InsertByConfidence(_, _)
InsertByConfidence(sorted, e) ==
    IF sorted = <<>> THEN <<e>>
    ELSE IF Head(sorted).confidenceScore >= e.confidenceScore
         THEN <<Head(sorted)>> \o InsertByConfidence(Tail(sorted), e)
         ELSE <<e>> \o sorted

RECURSIVE SortByConfidenceDesc(_)
SortByConfidenceDesc(s) ==
    IF s = <<>> THEN <<>>
    ELSE InsertByConfidence(SortByConfidenceDesc(SubSeq(s, 1, Len(s) - 1)), s[Len(s)])

consolidatePresetsOverwriting(presets) ==
    SortByConfidenceDesc(UniqueByKeyOverwritten(presets))

consolidatePresets(presets) == SortByConfidenceDesc(UniqueByKey(presets))

extractFigmaTextPresets(code) ==
    consolidatePresets(detectPresetsByName(code)
                       \o detectPresetsByCSSProperties(code)
                       \o detectPresetsBySemanticContext(code))

extractTexts(code) ==
    LET patterns ==
            <<Tag("text"),
              Cat(<<Lit("<h"), OneOf(CharsOf("123456")), Lazily, Lit(">")>>),
              Tag("p"),
              Alt(<<Cat(<<Lit("title"), Star(Digit)>>), Lit("heading"), Lit("typography")>>),
              Cat(<<Lit("text-preset-"), Plus(Digit), Lit("/"), Plus(WordChar)>>),
              Cat(<<Lit("text-preset-"), Plus(Digit), Lit("-"), Plus(WordChar)>>)>>
        counted ==
            Alt(<<Lit("text"), Lit("title"), Lit("heading"), Cat(<<Lit("h"), Digit>>),
                  Lit("p>"), Cat(<<Lit("text-preset-"), Plus(Digit)>>)>>)
    IN [found |-> TestSome(patterns, code),
        count |-> CountOf(counted, code),
        hasFormatting |->
            Test(AnyOf(<<"bold", "italic", "font-size", "color", "weight", "/regular",
                         "/medium", "/bold", "/light">>), code),
        hierarchy |-> detectTextHierarchy(code),
        figmaPresets |-> extractFigmaTextPresets(code)]

detectContainerTypes(code) ==
    Labelled(<< <<Lit("stack"), "stack">>,
                <<Lit("box"), "box">>,
                <<Lit("grid"), "grid">>,
                <<Lit("card"), "card">>,
                <<Lit("container"), "container">> >>, code)

extractContainers(code) ==
    [found |-> Test(AnyOf(<<"div", "view", "container", "box", "stack", "grid">>), code),
     count |-> CountOf(AnyOf(<<"div", "view", "container", "box", "stack">>), code),
     hasLayout |-> Test(AnyOf(<<"flex", "grid", "stack", "column", "row">>), code),
     hasPadding |-> Test(AnyOf(<<"padding", "margin", "space">>), code),
     types |-> detectContainerTypes(code)]

isListPattern(code) ==
    Test(AnyOf(<<".map", "flatlist", "scrollview", "listview", "virtualizedlist">>), code)

hasRepeatedElements(code) ==
    TestSome(<<Cat(<<Group(1, Plus(WordChar)), Lazily, BackRef(1), Lazily, BackRef(1)>>),
               Cat(<<Lit("map"), Star(Space), Lit("(")>>),
               Lit(".map("),
               AnyOf(<<"flatlist", "scrollview">>),
               Alt(<<Lit("foreach"), Before("for", "in"), Before("for", "of")>>)>>, code)

\* code.split("\n")
RECURSIVE Lines(_)
Lines(code) ==
    LET At(i) ==
            IF i = 0 THEN <<code>>
            ELSE <<SubSeq(code, 1, i - 1)>> \o Lines(SubSeq(code, i + 1, Len(code)))
    IN At(Least({i \in 1..Len(code) : SubSeq(code, i, i) = "\n"}))

\* the nesting depth that makes a structure nested: more than 8 leading blanks
NestedIndent == 8

hasNestedStructure(code) ==
    LET Indent(line) == Len(line) - Len(TrimStart(line))
        Deep(lines) == \E i \in 1..Len(lines) : Indent(lines[i]) > NestedIndent
    IN Deep(Lines(code))

analyzeListStructure(code) ==
    [hasIcons |-> Test(Lit("icon"), code) /\ isListPattern(code),
     hasActions |-> Test(AnyOf(<<"chevron", "arrow", "onpress">>), code)
                    /\ isListPattern(code),
     hasSubtitle |-> Test(AnyOf(<<"subtitle", "description">>), code),
     isNested |-> hasNestedStructure(code) /\ isListPattern(code)]

extractLists(code) ==
    [found |-> Test(Alt(<<Lit("flatlist"), Lit("scrollview"), Lit("map("),
                          Before("row", "row"), Before("item", "item")>>), code),
     count |-> CountOf(AnyOf(<<"row", "item", "list">>), code),
     isRepeated |-> hasRepeatedElements(code),
     hasNavigation |-> Test(AnyOf(<<"chevron", "arrow", ">">>), code),
     structure |-> analyzeListStructure(code)]

detectIconTypes(code) ==
    Labelled(<< <<AnyOf(<<"chevron", "arrow">>), "navigation">>,
                <<AnyOf(<<"check", "tick", "cross", "x">>), "status">>,
                <<AnyOf(<<"star", "heart", "bookmark">>), "action">>,
                <<AnyOf(<<"info", "warning", "error", "success">>), "feedback">> >>, code)

extractIcons(code) ==
    [found |-> Test(Alt(<<Lit("icon"),
                          Cat(<<Lit("image"), LazyStar(Dot), Lit("."),
                                AnyOf(<<"svg", "png">>)>>),
                          Lit("/>")>>), code),
     count |-> CountOf(Lit("icon"), code),
     hasInteraction |-> Test(Alt(<<Lit("iconbutton"), Before("onpress", "icon")>>), code),
     types |-> detectIconTypes(code)]

detectInputTypes(code) ==
    Labelled(<< <<Lit("email"), "email">>,
                <<Lit("password"), "password">>,
                <<AnyOf(<<"number", "numeric">>), "number">>,
                <<Lit("search"), "search">>,
                <<AnyOf(<<"date", "time">>), "date">>,
                <<AnyOf(<<"textarea", "multiline">>), "textarea">> >>, code)

extractInputs(code) ==
    [found |-> Test(AnyOf(<<"input", "field", "textinput">>), code),
     count |-> CountOf(AnyOf(<<"input", "field">>), code),
     types |-> detectInputTypes(code),
     hasValidation |-> Test(AnyOf(<<"required", "validation", "error">>), code)]

extractImages(code) ==
    [found |-> Test(AnyOf(<<"img", "image", "picture", "src=">>), code),
     count |-> CountOf(AnyOf(<<"img", "image">>), code),
     isDecorative |-> ~Test(AnyOf(<<"alt=", "aria-label">>), code)]

extractNavigation(code) ==
    [found |-> Test(AnyOf(<<"navigation", "header", "appbar", "nav">>), code),
     hasBackButton |->
         Test(Alt(<<Lit("back"), Cat(<<Lit("arrow"), Anything, Lit("left")>>), Lit("<")>>),
              code),
     hasTitle |-> Test(AnyOf(<<"title", "heading">>), code),
     hasActions |-> Test(AnyOf(<<"action", "menu", "more">>), code)]

\* layouts whose type looks at the header before the footer
LayoutElementsHeaderFirst(hasFixedFooter, hasFixedHeader, hasModal, buttonInFooter) ==
    [found |-> hasFixedFooter \/ hasFixedHeader \/ hasModal,
     hasFixedFooter |-> hasFixedFooter,
     hasFixedHeader |-> hasFixedHeader,
     hasModal |-> hasModal,
     layoutType |->
         IF hasFixedHeader THEN "fixed-header"
         ELSE IF hasFixedFooter /\ (hasFixedFooter /\ buttonInFooter)
         THEN "fixed-footer-with-button"
         ELSE IF hasFixedFooter THEN "fixed-footer"
         ELSE IF hasModal THEN "modal"
         ELSE "standard",
     containsButtonInFooter |-> hasFixedFooter /\ buttonInFooter]

LayoutElements(hasFixedFooter, hasFixedHeader, hasModal, buttonInFooter) ==
    [found |-> hasFixedFooter \/ hasFixedHeader \/ hasModal,
     hasFixedFooter |-> hasFixedFooter,
     hasFixedHeader |-> hasFixedHeader,
     hasModal |-> hasModal,
     layoutType |->
         IF hasFixedFooter /\ (hasFixedFooter /\ buttonInFooter)
         THEN "fixed-footer-with-button"
         ELSE IF hasFixedFooter THEN "fixed-footer"
         ELSE IF hasFixedHeader THEN "fixed-header"
         ELSE IF hasModal THEN "modal"
         ELSE "standard",
     containsButtonInFooter |-> hasFixedFooter /\ buttonInFooter]

extractLayouts(code) ==
    LayoutElements(
        Test(Alt(<<Before("fixed", "footer"), Before("footer", "fixed"),
                   Before("sticky", "bottom"),
                   Cat(<<Lit("position"), Anything, Lit("fixed"), Anything,
                         Lit("bottom")>>)>>), code),
        Test(Alt(<<Before("fixed", "header"), Before("header", "fixed"),
                   Before("sticky", "top"),
                   Cat(<<Lit("position"), Anything, Lit("fixed"), Anything,
                         Lit("top")>>)>>), code),
        Test(AnyOf(<<"modal", "dialog", "overlay", "popup", "sheet", "bottomsheet">>), code),
        Test(Alt(<<Before("footer", "button"), Before("button", "footer")>>), code))

SecurityElements(hasPinField, hasCodeInput, hasOTPInput) ==
    [found |-> hasPinField \/ hasCodeInput \/ hasOTPInput,
     hasPinField |-> hasPinField,
     hasCodeInput |-> hasCodeInput,
     hasOTPInput |-> hasOTPInput,
     securityLevel |->
         IF hasOTPInput THEN "high"
         ELSE IF hasPinField \/ hasCodeInput THEN "medium"
         ELSE "none"]

extractSecurity(code) ==
    SecurityElements(
        Test(Alt(<<Lit("pinfield"), Before("pin", "field"), Before("pin", "input"),
                   Before("code", "input")>>), code),
        Test(Alt(<<Before("code", "input"), Before("verification", "code"), Lit("otp"),
                   Lit("pin")>>), code),
        Test(Alt(<<Lit("otp"),
                   Cat(<<Lit("one"), Anything, Lit("time"), Anything, Lit("password")>>),
                   Before("verification", "code")>>), code))

\* the field types extractForms pushes, in the order of its tests
FormFieldTypes(code) ==
    Labelled(<< <<Alt(<<Before("text", "input"), Lit("textfield")>>), "text">>,
                <<Alt(<<Before("email", "input"), Before("email", "field")>>),
                  "email">>,
                <<Alt(<<Before("password", "input"), Before("password", "field")>>),
                  "password">>,
                <<Alt(<<Before("number", "input"), Before("numeric", "field")>>),
                  "number">>,
                <<Alt(<<Before("phone", "input"), Before("phone", "field")>>),
                  "phone">>,
                <<Alt(<<Before("pin", "input"), Before("pin", "field"),
                        Before("code", "input")>>), "pin">> >>, code)

FormElements(fieldTypes, hasValidation, hasSubmitButton) ==
    [found |-> Len(fieldTypes) > 0 \/ hasSubmitButton,
     hasValidation |-> hasValidation,
     fieldTypes |-> fieldTypes,
     hasSubmitButton |-> hasSubmitButton,
     structure |->
         IF Len(fieldTypes) > 3 THEN "complex"
         ELSE IF Len(fieldTypes) > 1 THEN "multi-field"
         ELSE "simple"]

extractForms(code) ==
    FormElements(
        FormFieldTypes(code),
        Test(AnyOf(<<"validation", "error", "validate", "required", "pattern">>), code),
        Test(AnyOf(<<"submit", "send", "save", "continue", "next", "confirm">>), code))

SpacingUnits ==
    <<"px", "rem", "em", "%", "pt", "pc", "in", "cm", "mm", "ex", "ch", "vw", "vh", "vmin",
      "vmax">>

\* (['"`]?)(\d+(?:\.\d+)?)(px|rem|...)\1; the backquote is not in the alphabet
\* of the markups
QuotedLength ==
    Cat(<<Group(1, Opt(Quote)),
          Group(2, Cat(<<Plus(Digit), Opt(Cat(<<Lit("."), Plus(Digit)>>))>>)),
          Group(3, AnyOf(SpacingUnits)), BackRef(1)>>)

ColonOrSpace == OneOf({":"} \cup SpaceChars)

\* keyword[:\s]*[\w-]*\s*[:\s]*\s*(length)
PropertyLength(keyword) ==
    Cat(<<Lit(keyword), Star(ColonOrSpace), Star(OneOf(WordChars \cup {"-"})), Star(Space),
          Star(ColonOrSpace), Star(Space), QuotedLength>>)

\* keyword[:\s]*\s*(length)
ShortLength(keyword) == Cat(<<Lit(keyword), Star(ColonOrSpace), Star(Space), QuotedLength>>)

spacingPatterns ==
    <<PropertyLength("padding"),
      PropertyLength("margin"),
      ShortLength("gap"),
      ShortLength("space"),
      \* \b(\d+)(px|rem|em|%)\b: the groups are 1 and 2, so that match[2] is the
      \* unit and match[3] is undefined
      Cat(<<WordBoundary, Group(1, Plus(Digit)), Group(2, AnyOf(<<"px", "rem", "em", "%">>)),
            WordBoundary>>)>>

SemanticName(keyword, names) ==
    Cat(<<Lit(keyword), Opt(OneOf({"-", "_"})), Group(1, AnyOf(names))>>)

semanticPatterns ==
    <<SemanticName("space", <<"xs", "sm", "md", "lg", "xl", "2xl", "3xl">>),
      SemanticName("padding", <<"small", "medium", "large", "extra">>),
      SemanticName("margin", <<"small", "medium", "large", "extra">>),
      SemanticName("gap", <<"tight", "normal", "loose">>)>>

commonDesignSystemValues ==
    <<"8px", "16px", "24px", "32px", "4px", "12px", "20px", "40px">>

\* the number of distinct values up to which the spacing is that of a design
\* system
DesignSystemValues == 3

\* the matches of spacingPatterns that push a value: match[2] and match[3] set
SpacingMatches(code) ==
    LET HasValueAndUnit(m) == m.caps[2] # "" /\ m.caps[3] # ""
    IN SelectSeq(AllMatches(spacingPatterns, code), HasValueAndUnit)

\* the names the semantic patterns add, match[1] set
SemanticMatches(code) ==
    LET NotEmpty(m) == m.caps[1] # ""
    IN SelectSeq(AllMatches(semanticPatterns, code), NotEmpty)

SpacingTypes(code) ==
    Labelled(<< <<Lit("padding"), "padding">>,
                <<Lit("margin"), "margin">>,
                <<Lit("gap"), "gap">>,
                <<Lit("space"), "space">> >>, code)

\* the patterns of the spacing values: by the number of distinct values, and
\* whether one of them is a common value of design systems
SpacingPatternsOf(spacingValues, uniqueValues) ==
    LET IsCommon(value) == InSeq(value, commonDesignSystemValues)
    IN (IF Len(uniqueValues) = 1 THEN <<"consistent">>
        ELSE IF Len(uniqueValues) <= DesignSystemValues THEN <<"design-system">>
        ELSE <<"mixed">>)
       \o (IF SelectSeq(spacingValues, IsCommon) # <<>>
           THEN <<"design-system-aligned">> ELSE <<>>)

SpacingElements(spacingTypes, valued, named) ==
    LET Values(spacingValues) ==
            [found |-> spacingTypes # <<>> \/ valued # <<>>,
             hasExplicitSpacing |-> spacingTypes # <<>> \/ valued # <<>>,
             spacingTypes |-> Unique(spacingTypes),
             spacingValues |-> Unique(spacingValues),
             spacingPatterns |-> SpacingPatternsOf(spacingValues, Unique(spacingValues)),
             detectedUnits |-> Unique([i \in 1..Len(valued) |-> valued[i].caps[3]]),
             semanticSpacing |-> Unique([i \in 1..Len(named) |-> named[i].caps[1]])]
    IN Values([i \in 1..Len(valued) |-> valued[i].caps[2] \o valued[i].caps[3]])

extractSpacing(code) ==
    SpacingElements(SpacingTypes(code), SpacingMatches(code), SemanticMatches(code))

ComponentWord == AnyOf(<<"screen", "feedback", "button", "card", "modal">>)
NoQuote == NoneOf({"'", "\""})
NoStar == NoneOf({"*"})

\* attr=["']([^"']*(?:Screen|Feedback|Button|Card|Modal)[^"']*)["']
NamedAttribute(attr) ==
    Cat(<<Lit(attr \o "="), Quote,
          Group(1, Cat(<<Star(NoQuote), ComponentWord, Star(NoQuote)>>)), Quote>>)

\* the shortest name extractFigmaComponentNames keeps is longer than this
ShortName == 2

figmaNamePatterns ==
    <<Cat(<<Lit("data-name="), Quote, Group(1, Plus(NoQuote)), Quote>>),
      NamedAttribute("classname"),
      NamedAttribute("id"),
      Cat(<<Lit("/*"), Star(Space),
            Group(1, Cat(<<Star(NoStar), ComponentWord, Star(NoStar)>>)),
            Star(Space), Lit("*/")>>),
      Cat(<<WordBoundary,
            Group(1, Cat(<<OneOf(LetterChars), Star(OneOf(LetterChars)),
                           ComponentWord, Opt(OneOf(LetterChars)),
                           Star(OneOf(LetterChars))>>)),
            WordBoundary>>)>>

extractFigmaComponentNames(code) ==
    LET LongEnough(name) == Len(name) > ShortName
        Names(found) == [i \in 1..Len(found) |-> Trim(found[i].caps[1])]
    IN Unique(SelectSeq(Names(AllMatches(figmaNamePatterns, code)), LongEnough))

UpperChar(c) ==
    IF c \in CharsOf(LowerChars)
    THEN LET i == CHOOSE j \in 1..Len(LowerChars) : SubSeq(LowerChars, j, j) = c
         IN SubSeq(UpperChars, i, i)
    ELSE c

\* name.replace(/[...]+/g, with): every run of the characters replaced by a string
RECURSIVE ReplaceRuns(_, _, _)
ReplaceRuns(name, chars, with) ==
    IF name = "" THEN ""
    ELSE LET c == SubSeq(name, 1, 1)
             rest == SubSeq(name, 2, Len(name))
         IN IF c \notin chars THEN c \o ReplaceRuns(rest, chars, with)
            ELSE IF rest # "" /\ SubSeq(rest, 1, 1) \in chars
                 THEN ReplaceRuns(rest, chars, with)
                 ELSE with \o ReplaceRuns(rest, chars, with)

\* name.replace(/\s+(.)/g, (_, char) => char.toUpperCase()): white space that a
\* character other than a line break follows is dropped and the character
\* uppercased; atStart also takes the first character, as /(?:^|\s+)(.)/g does
RECURSIVE CapitalizeAfterSpace(_, _)
CapitalizeAfterSpace(name, atStart) ==
    LET After(m) ==
            IF atStart /\ SubSeq(name, 1, 1) # "\n"
            THEN UpperChar(SubSeq(name, 1, 1))
                 \o CapitalizeAfterSpace(SubSeq(name, 2, Len(name)), FALSE)
            ELSE IF m # <<>>
                 THEN UpperChar(m[1].caps[1])
                      \o CapitalizeAfterSpace(SubSeq(name, m[1].pos, Len(name)), FALSE)
                 ELSE SubSeq(name, 1, 1)
                      \o CapitalizeAfterSpace(SubSeq(name, 2, Len(name)), FALSE)
    IN IF name = "" THEN ""
       ELSE After(MatchAt(Cat(<<Plus(Space), Group(1, Dot)>>), Subject(name), 1))

normalizeComponentName(name) ==
    LET Capitalized(joined) ==
            IF joined = "" THEN ""
            ELSE UpperChar(SubSeq(joined, 1, 1)) \o SubSeq(joined, 2, Len(joined))
    IN Capitalized(ReplaceRuns(name, SpaceChars \cup {"-", "_"}, ""))

generateNameVariations(originalName) ==
    LET noSpaces == ReplaceRuns(originalName, SpaceChars, "")
        camelCase == CapitalizeAfterSpace(originalName, FALSE)
        pascalCase ==
            ReplaceRuns(CapitalizeAfterSpace(originalName, TRUE), SpaceChars, "")
        kebabCase == ReplaceRuns(ToLowerCase(originalName), SpaceChars, "-")
        snakeCase == ReplaceRuns(ToLowerCase(originalName), SpaceChars, "_")
        Differs(variation) == variation # originalName
    IN Unique(<<originalName>>
              \o SelectSeq(<<noSpaces, camelCase, pascalCase, kebabCase, snakeCase>>,
                           Differs))

typePatterns ==
    <<[pattern |-> Alt(<<Before("feedback", "screen"), Before("screen", "feedback"),
                         Before("error", "screen"), Before("success", "screen")>>),
       type |-> "feedback", confidence |-> 9],
      [pattern |-> AnyOf(<<"button", "btn">>), type |-> "button", confidence |-> 8],
      [pattern |-> Lit("card"), type |-> "card", confidence |-> 7],
      [pattern |-> AnyOf(<<"modal", "dialog">>), type |-> "modal", confidence |-> 8],
      [pattern |-> AnyOf(<<"text", "title", "heading">>), type |-> "text", confidence |-> 6],
      [pattern |-> AnyOf(<<"navigation", "nav", "header">>), type |-> "navigation",
       confidence |-> 7],
      [pattern |-> AnyOf(<<"input", "field", "form">>), type |-> "input", confidence |-> 7]>>

\* the confidence of a component of unknown type, in tenths
UnknownConfidence == 3

\* <<>> stands for null, <<component>> for a component
analyzeFigmaComponentName(originalName) ==
    LET Typed(first) ==
            IF first = 0 /\ Len(originalName) < 3 THEN <<>>
            ELSE <<[originalName |-> originalName,
                    normalizedName |-> normalizeComponentName(originalName),
                    componentType |->
                        IF first = 0 THEN "unknown" ELSE typePatterns[first].type,
                    confidenceScore |->
                        IF first = 0 THEN UnknownConfidence
                        ELSE typePatterns[first].confidence,
                    variations |-> generateNameVariations(originalName)]>>
    IN Typed(Least({i \in 1..Len(typePatterns) :
                       Test(typePatterns[i].pattern, originalName)}))

feedbackPatterns ==
    <<Alt(<<Cat(<<Lit("error"), Anything, Lit("feedback"), Anything, Lit("screen")>>),
            Cat(<<Lit("feedback"), Anything, Lit("error"), Anything, Lit("screen")>>),
            Before("error", "screen")>>),
      Alt(<<Cat(<<Lit("success"), Anything, Lit("feedback"), Anything, Lit("screen")>>),
            Cat(<<Lit("feedback"), Anything, Lit("success"), Anything, Lit("screen")>>),
            Before("success", "screen")>>),
      Alt(<<Cat(<<Lit("info"), Anything, Lit("feedback"), Anything, Lit("screen")>>),
            Cat(<<Lit("feedback"), Anything, Lit("info"), Anything, Lit("screen")>>),
            Before("info", "screen")>>),
      Alt(<<Cat(<<Lit("warning"), Anything, Lit("feedback"), Anything, Lit("screen")>>),
            Cat(<<Lit("feedback"), Anything, Lit("warning"), Anything, Lit("screen")>>),
            Before("warning", "screen")>>),
      Alt(<<Before("feedback", "screen"), Before("screen", "feedback")>>)>>

\* the type of a feedback: the first of the four words the code holds
FeedbackType(code) ==
    LET Types(found) == IF found = <<>> THEN "generic" ELSE found[1]
    IN Types(Labelled(<< <<Lit("error"), "error">>,
                         <<Lit("success"), "success">>,
                         <<Lit("info"), "info">>,
                         <<Lit("warning"), "warning">> >>, code))

FeedbackElements(code, feedbackNames) ==
    [found |-> TestSome(feedbackPatterns, code) \/ Len(feedbackNames) > 0,
     type |-> FeedbackType(code),
     hasScreen |-> Test(Lit("screen"), code),
     hasIcon |->
         Test(Alt(<<Lit("icon"), Before("image", "error"), Before("image", "success"),
                    Before("image", "info"), Before("image", "warning")>>), code),
     hasActions |->
         Test(AnyOf(<<"button", "action", "retry", "close", "dismiss", "ok">>), code),
     detectedNames |-> feedbackNames]

extractFeedback(code) ==
    LET IsFeedbackName(name) ==
            Test(AnyOf(<<"feedback", "screen", "error", "success", "info", "warning">>), name)
    IN FeedbackElements(code, SelectSeq(extractFigmaComponentNames(code), IsFeedbackName))

FigmaComponentElements(detectedComponents) ==
    [found |-> Len(detectedComponents) > 0,
     detectedComponents |-> detectedComponents]

extractFigmaComponents(code) ==
    LET Analyzed(componentNames) ==
            Flatten([i \in 1..Len(componentNames) |->
                        analyzeFigmaComponentName(componentNames[i])])
    IN FigmaComponentElements(Analyzed(extractFigmaComponentNames(code)))

extractUIElements(code) ==
    [buttons |-> extractButtons(code),
     texts |-> extractTexts(code),
     containers |-> extractContainers(code),
     lists |-> extractLists(code),
     icons |-> extractIcons(code),
     inputs |-> extractInputs(code),
     images |-> extractImages(code),
     navigation |-> extractNavigation(code),
     layouts |-> extractLayouts(code),
     security |-> extractSecurity(code),
     forms |-> extractForms(code),
     spacing |-> extractSpacing(code),
     feedback |-> extractFeedback(code),
     figmaComponents |-> extractFigmaComponents(code)]

-----------------------------------------------------------------------------
(* PatternDetector *)

\* hasRepeatedElements and hasNestedStructure of the detector are those of the
\* extractor, word for word.
detectVisualPatterns(code) ==
    [listPattern |-> hasRepeatedElements(code) /\ Test(AnyOf(<<"row", "item", "list">>), code),
     cardPattern |->
         \/ Test(Alt(<<Lit("card"), Lit("card"), Before("container", "shadow"),
                       Lit("elevation")>>), code)
         \/ hasNestedStructure(code) /\ Test(AnyOf(<<"padding", "border">>), code),
     formPattern |->
         \/ CountOf(AnyOf(<<"input", "field", "textfield">>), code) > 1
         \/ Test(AnyOf(<<"form", "form", "submit">>), code),
     navigationPattern |->
         Test(Alt(<<Lit("navigation"), Lit("header"), Lit("appbar"), Before("nav", "bar")>>),
              code),
     modalPattern |->
         Test(AnyOf(<<"modal", "modal", "dialog", "dialog", "sheet", "sheet", "drawer",
                      "drawer", "overlay">>), code),
     tablePattern |->
         \/ Test(AnyOf(<<"table", "table", "thead", "tbody", "tr", "td", "th">>), code)
         \/ hasRepeatedElements(code) /\ Test(AnyOf(<<"column", "header">>), code),
     headerPattern |->
         Test(Alt(<<Lit("header"), Lit("header"), Lit("appbar"),
                    Before("navigation", "title")>>), code),
     footerPattern |->
         Test(Alt(<<Lit("footer"), Lit("footer"), Before("bottom", "bar"),
                    Before("tab", "bar")>>), code)]

detectLayoutType(code) ==
    IF Test(Alt(<<Before("flex", "column"), Lit("flex-col"), Before("stack", "vertical")>>),
            code) THEN "vertical"
    ELSE IF Test(Alt(<<Before("flex", "row"), Lit("flex-row"), Lit("horizontal")>>), code)
         THEN "horizontal"
    ELSE IF Test(AnyOf(<<"grid", "grid">>), code) THEN "grid"
    ELSE IF Test(AnyOf(<<"absolute", "fixed", "relative">>), code) THEN "positioned"
    ELSE "flow"

\* <\w+
ElementStart == Cat(<<Lit("<"), Plus(WordChar)>>)

\* some element type starts more than twice; the types are told apart with
\* their case
findRepetitivePatterns(code) ==
    LET Often(elementTypes) ==
            \E i \in 1..Len(elementTypes) :
                Cardinality({j \in 1..Len(elementTypes) :
                                elementTypes[j].text = elementTypes[i].text}) > 2
    IN Often(Matches(ElementStart, code))

findInteractiveElements(code) ==
    Labelled(<< <<AnyOf(<<"onpress", "onclick", "press", "tap">>), "buttons">>,
                <<AnyOf(<<"scroll", "swipe">>), "scrollable">>,
                <<AnyOf(<<"input", "field">>), "forms">>,
                <<AnyOf(<<"modal", "sheet", "drawer">>), "overlays">> >>, code)

analyzeSpacing(code) ==
    IF Test(Alt(<<Lit("gap"),
                  Cat(<<Lit("space"), Anything, Plus(Digit)>>),
                  Cat(<<Lit("margin"), Anything, Plus(Digit)>>),
                  Cat(<<Lit("padding"), Anything, Plus(Digit)>>)>>), code) THEN "explicit"
    ELSE IF Test(Alt(<<Before("flex", "gap"), Before("grid", "gap")>>), code) THEN "flexible"
    ELSE "implicit"

analyzeAlignment(code) ==
    IF Test(AnyOf(<<"center", "justify-center", "align-center">>), code) THEN "center"
    ELSE IF Test(AnyOf(<<"start", "left", "justify-start">>), code) THEN "start"
    ELSE IF Test(AnyOf(<<"end", "right", "justify-end">>), code) THEN "end"
    ELSE IF Test(AnyOf(<<"between", "around", "evenly">>), code) THEN "distributed"
    ELSE "default"

analyzeStructure(code) ==
    [hasNestedElements |-> hasNestedStructure(code),
     layoutType |-> detectLayoutType(code),
     repetitiveElements |-> findRepetitivePatterns(code),
     interactionElements |-> findInteractiveElements(code),
     spacing |-> analyzeSpacing(code),
     alignment |-> analyzeAlignment(code)]

\* the largest number of a sequence of numbers that is not empty
RECURSIVE Largest(_)
Largest(numbers) ==
    IF Len(numbers) = 1 THEN numbers[1] ELSE Max(numbers[1], Largest(Tail(numbers)))

\* the leading white space of the lines of the code: twice the nesting level
\* of every line
LeadingSpace(lines) == [i \in 1..Len(lines) |-> Len(lines[i]) - Len(TrimStart(lines[i]))]

\* twice the complexity score above which the complexity is high, and medium
TwiceHighScore == 100
TwiceMediumScore == 40

\* The nesting level is half the leading white space, so the score is compared
\* doubled: 2 * (elementCount * 2 + nestingLevel + propsCount).
calculateCodeComplexity(code) ==
    LET Complexity(twiceScore) ==
            IF twiceScore > TwiceHighScore THEN "high"
            ELSE IF twiceScore > TwiceMediumScore THEN "medium"
            ELSE "low"
    IN Complexity(4 * CountOf(ElementStart, code)
                  + Largest(LeadingSpace(Lines(code)))
                  + 2 * CountOf(Cat(<<Plus(WordChar), Lit("=")>>), code))

-----------------------------------------------------------------------------
(* Arguments of extractUIElements *)

\* a markup is made of at most this many fragments
MaxFragments == 2

Fragments ==
    {"button", "<Button onClick>", "footer fixed", "padding: 16px", "gap: 8px",
     "text-preset-3/bold", "font-size: 16px", "className='ErrorScreen'", "Icon x",
     "email input", "List"}

\* the fragments of a markup, one blank between two of them
RECURSIVE Joined(_)
Joined(fs) ==
    IF fs = <<>> THEN ""
    ELSE IF Len(fs) = 1 THEN fs[1]
    ELSE fs[1] \o " " \o Joined(Tail(fs))

Markups == {Joined(fs) : fs \in UNION {[1..n -> Fragments] : n \in 0..MaxFragments}}

InitExtract ==
    /\ extractCall \in [pc : {"called"}, code : Markups, elements : {<<>>}]
    /\ mapperCall = NotUsed
    /\ searchCall = NotUsed
    /\ colorCall = NotUsed
    /\ typoCall = NotUsed
    /\ pipeline = NotUsed
    /\ scraper = NotUsed
    /\ request = NotUsed
    /\ cacheManager = NotUsed
    /\ rateLimiter = NotUsed

ExtractUIElements ==
    /\ extractCall.pc = "called"
    /\ extractCall' =
           [extractCall EXCEPT
               !.pc = "returned",
               !.elements = extractUIElements(extractCall.code)]
    /\ UNCHANGED <<mapperCall, searchCall, colorCall, typoCall, pipeline, scraper, request,
                   cacheManager, rateLimiter>>

NextExtract == ExtractUIElements

SpecExtract == InitExtract /\ [][NextExtract]_vars

-----------------------------------------------------------------------------
(* Arguments of extractLayouts *)

\* a markup of layouts is made of at most this many fragments
MaxLayoutFragments == 3

\* one fragment for each of the four tests of extractLayouts, and one for two
LayoutFragments ==
    {"fixed footer", "sticky top", "dialog", "footer button", "sticky top dialog"}

LayoutMarkups ==
    {Joined(fs) : fs \in UNION {[1..n -> LayoutFragments] : n \in 0..MaxLayoutFragments}}

InitLayouts ==
    /\ extractCall \in [pc : {"called"}, code : LayoutMarkups, layouts : {<<>>}]
    /\ mapperCall = NotUsed
    /\ searchCall = NotUsed
    /\ colorCall = NotUsed
    /\ typoCall = NotUsed
    /\ pipeline = NotUsed
    /\ scraper = NotUsed
    /\ request = NotUsed
    /\ cacheManager = NotUsed
    /\ rateLimiter = NotUsed

ExtractLayouts ==
    /\ extractCall.pc = "called"
    /\ extractCall' =
           [extractCall EXCEPT !.pc = "returned", !.layouts = extractLayouts(extractCall.code)]
    /\ UNCHANGED <<mapperCall, searchCall, colorCall, typoCall, pipeline, scraper, request,
                   cacheManager, rateLimiter>>

NextLayouts == ExtractLayouts

SpecLayouts == InitLayouts /\ [][NextLayouts]_vars

-----------------------------------------------------------------------------
(* Arguments of extractFigmaTextPresets *)

\* a markup of presets is made of at most this many fragments
MaxPresetFragments == 3

PresetFragments ==
    {"text-preset-3/regular", "text-preset-1-Bold", "font-size: 18px", "<h3>", "<h1>",
     "font-size: 30px; font-weight: 700"}

PresetMarkups ==
    {Joined(fs) : fs \in UNION {[1..n -> PresetFragments] : n \in 0..MaxPresetFragments}}

InitPresets ==
    /\ extractCall \in [pc : {"called"}, code : PresetMarkups, presets : {<<>>}]
    /\ mapperCall = NotUsed
    /\ searchCall = NotUsed
    /\ colorCall = NotUsed
    /\ typoCall = NotUsed
    /\ pipeline = NotUsed
    /\ scraper = NotUsed
    /\ request = NotUsed
    /\ cacheManager = NotUsed
    /\ rateLimiter = NotUsed

ExtractFigmaTextPresets ==
    /\ extractCall.pc = "called"
    /\ extractCall' =
           [extractCall EXCEPT
               !.pc = "returned",
               !.presets = extractFigmaTextPresets(extractCall.code)]
    /\ UNCHANGED <<mapperCall, searchCall, colorCall, typoCall, pipeline, scraper, request,
                   cacheManager, rateLimiter>>

NextPresets == ExtractFigmaTextPresets

SpecPresets == InitPresets /\ [][NextPresets]_vars

-----------------------------------------------------------------------------
(* SkinVarsAnalyzer.normalizeColor *)

\* the subject of a pattern without the i flag: letters match as they are
SubjectExact(code) == [text |-> code, low |-> code, len |-> Len(code), fold |-> FALSE]

\* String.prototype.match of a pattern without the g flag: the match at the
\* first position that has one, <<>> for null
FirstMatch(r, subj) ==
    LET At(i) == IF i = 0 THEN <<>> ELSE <<MatchAt(r, subj, i)[1]>>
    IN At(Least({i \in 1..(subj.len + 1) : MatchAt(r, subj, i) # <<>>}))

\* String.prototype.padStart with a pad of one character
RECURSIVE PadStart(_, _, _)
PadStart(s, length, pad) == IF Len(s) >= length THEN s ELSE PadStart(pad \o s, length, pad)

\* Number.prototype.toString(16) of a non-negative integer
RECURSIVE ToHex(_)
ToHex(n) ==
    IF n < 16 THEN SubSeq("0123456789abcdef", n + 1, n + 1)
    ELSE ToHex(n \div 16) \o SubSeq("0123456789abcdef", (n % 16) + 1, (n % 16) + 1)

\* the digits of a numeral from its first digit other than 0, "" for zero
RECURSIVE Significant(_)
Significant(digits) ==
    IF digits # "" /\ SubSeq(digits, 1, 1) = "0"
    THEN Significant(SubSeq(digits, 2, Len(digits))) ELSE digits

\* a decimal numeral of at most this many significant digits is a number the
\* integers of the model hold
ExactDigits == 9

\* a decimal numeral of at least this many significant digits is above the
\* largest finite Number (about 1.8 * 10^308): parseInt returns Infinity
InfiniteDigits == 310

\* parseInt(digits).toString(16) of a decimal numeral: the hexadecimal numeral of
\* its value, and "Infinity" if the value is infinite. The numerals between
\* the two sizes are not among the arguments.
HexOfDecimal(digits) ==
    LET Of(significant) ==
            CASE Len(significant) <= ExactDigits -> ToHex(ParseInt(significant))
              [] Len(significant) >= InfiniteDigits -> "Infinity"
    IN Of(Significant(digits))

\* rgb\((\d+),\s*(\d+),\s*(\d+)\)
rgbPattern ==
    Cat(<<Lit("rgb("), Group(1, Plus(Digit)), Lit(","), Star(Space),
          Group(2, Plus(Digit)), Lit(","), Star(Space), Group(3, Plus(Digit)), Lit(")")>>)

\* the color stands for the trimmed and lowercased color
ConvertColor(color, rgbMatch) ==
    IF rgbMatch # <<>>
    THEN "#" \o PadStart(HexOfDecimal(rgbMatch[1].caps[1]), 2, "0")
             \o PadStart(HexOfDecimal(rgbMatch[1].caps[2]), 2, "0")
             \o PadStart(HexOfDecimal(rgbMatch[1].caps[3]), 2, "0")
    ELSE IF StartsWith(color, "#") /\ Len(color) = 4
         THEN "#" \o SubSeq(color, 2, 2) \o SubSeq(color, 2, 2)
                  \o SubSeq(color, 3, 3) \o SubSeq(color, 3, 3)
                  \o SubSeq(color, 4, 4) \o SubSeq(color, 4, 4)
         ELSE color

normalizeColor(color) ==
    LET Lowered(c) == ConvertColor(c, FirstMatch(rgbPattern, SubjectExact(c)))
    IN Lowered(ToLowerCase(Trim(color)))

-----------------------------------------------------------------------------
(* Arguments of normalizeColor *)

\* string.repeat
RECURSIVE Repeat(_, _)
Repeat(s, n) ==
    IF n = 0 THEN ""
    ELSE IF n = 1 THEN s
    ELSE Repeat(s, n \div 2) \o Repeat(s, n - (n \div 2))

\* a color literal has at most this many blanks before it and after it
MaxBlanks == 1

\* the numerals of the components of an rgb literal: small ones, one with a
\* leading zero, and one that parseInt makes infinite
ColorComponents == {"0", "7", "16", "255", "016", Repeat("9", InfiniteDigits)}

RgbLiterals ==
    {name \o "(" \o r \o sep \o g \o sep \o b \o ")" :
        name \in {"rgb", "RGB"}, sep \in {",", ", "},
        r \in ColorComponents, g \in ColorComponents, b \in {"0", "255"}}

HexLiterals == {"#abc", "#ABC", "#fFf", "#aabbcc", "#AABBCC", "#0B2739", "#12", "#12345"}

NamedColors == {"red", "Red", "transparent", "rgba(0, 0, 0, 0.5)", "rgb(1 2 3)", "", "#a c"}

ColorLiterals ==
    {Repeat(" ", before) \o literal \o Repeat(" ", after) :
        before \in 0..MaxBlanks, after \in 0..MaxBlanks,
        literal \in RgbLiterals \cup HexLiterals \cup NamedColors}

InitColor ==
    /\ colorCall \in [pc : {"called"}, color : ColorLiterals, result : {""}]
    /\ mapperCall = NotUsed
    /\ searchCall = NotUsed
    /\ extractCall = NotUsed
    /\ typoCall = NotUsed
    /\ pipeline = NotUsed
    /\ scraper = NotUsed
    /\ request = NotUsed
    /\ cacheManager = NotUsed
    /\ rateLimiter = NotUsed

NormalizeColor ==
    /\ colorCall.pc = "called"
    /\ colorCall' =
           [colorCall EXCEPT !.pc = "returned", !.result = normalizeColor(colorCall.color)]
    /\ UNCHANGED <<mapperCall, searchCall, extractCall, typoCall, pipeline, scraper, request,
                   cacheManager, rateLimiter>>

NextColor == NormalizeColor

SpecColor == InitColor /\ [][NextColor]_vars

-----------------------------------------------------------------------------
(* TypographyAnalyzer *)

\* Sizes are counted in tenths of a pixel and confidences in tenths: a size
\* of 16 is 160, a confidence of 1.0 is 10.
Px(size) == 10 * size

TextLevels ==
    <<"text1", "text2", "text3", "text4", "text5", "text6", "text7", "text8", "text9",
      "text10">>

TEXT_SCALE_MAPPING ==
    [text1 |-> [minSize |-> 56, maxSize |-> 64, weights |-> <<"light", "regular", "medium">>],
     text2 |-> [minSize |-> 40, maxSize |-> 48, weights |-> <<"light", "regular", "medium">>],
     text3 |-> [minSize |-> 32, maxSize |-> 40, weights |-> <<"light", "regular", "medium">>],
     text4 |-> [minSize |-> 28, maxSize |-> 32, weights |-> <<"light", "regular", "medium">>],
     text5 |-> [minSize |-> 24, maxSize |-> 28, weights |-> <<"light", "regular", "medium">>],
     text6 |-> [minSize |-> 20, maxSize |-> 24, weights |-> <<"regular", "medium">>],
     text7 |-> [minSize |-> 18, maxSize |-> 20, weights |-> <<"regular", "medium">>],
     text8 |-> [minSize |-> 16, maxSize |-> 18, weights |-> <<"regular", "medium">>],
     text9 |-> [minSize |-> 14, maxSize |-> 16, weights |-> <<"regular", "medium">>],
     text10 |-> [minSize |-> 12, maxSize |-> 14, weights |-> <<"regular", "medium">>]]

WeightClasses == <<"light", "regular", "medium", "bold">>

WEIGHT_KEYWORDS ==
    [light |-> <<"light", "thin", "300", "200", "100">>,
     regular |-> <<"regular", "normal", "400", "book">>,
     medium |-> <<"medium", "500", "600", "semibold">>,
     bold |-> <<"bold", "700", "800", "900", "black">>]

\* RegExp.prototype.test of a fresh pattern without the i flag
TestExact(r, code) ==
    LET Somewhere(subj) == \E i \in 1..(subj.len + 1) : MatchAt(r, subj, i) # <<>>
    IN Somewhere(SubjectExact(code))

\* \d+(?:\.\d+)?
Decimal == Cat(<<Plus(Digit), Opt(Cat(<<Lit("."), Plus(Digit)>>))>>)

\* parseFloat of a numeral \d+(?:\.\d+)?, in tenths; the numerals with more
\* than one digit after the point are not among the arguments
ParseFloat(numeral) ==
    LET At(point) ==
            CASE point = 0 -> 10 * ParseInt(numeral)
              [] point # 0 /\ Len(numeral) = point + 1 ->
                    10 * ParseInt(SubSeq(numeral, 1, point - 1))
                    + DigitValue(SubSeq(numeral, point + 1, point + 1))
    IN At(Least({i \in 1..Len(numeral) : SubSeq(numeral, i, i) = "."}))

\* the size of a text without font size
DefaultSize == 16

extractFontSize(cssText) ==
    LET Size(fontSizeMatch) ==
            IF fontSizeMatch # <<>> THEN ParseFloat(fontSizeMatch[1].caps[1])
            ELSE Px(DefaultSize)
    IN Size(FirstMatch(Cat(<<Lit("font-size:"), Star(Space), Group(1, Decimal), Lit("px")>>),
                       Subject(cssText)))

extractFontWeight(cssText) ==
    LET Weight(fontWeightMatch) ==
            IF fontWeightMatch # <<>> THEN Trim(fontWeightMatch[1].caps[1]) ELSE "regular"
    IN Weight(FirstMatch(Cat(<<Lit("font-weight:"), Star(Space),
                               Group(1, Plus(NoneOf({";"})))>>), Subject(cssText)))

tailwindSizeMap ==
    << <<"text-xs", 12>>, <<"text-sm", 14>>, <<"text-base", 16>>, <<"text-lg", 18>>,
       <<"text-xl", 20>>, <<"text-2xl", 24>>, <<"text-3xl", 30>>, <<"text-4xl", 36>>,
       <<"text-5xl", 48>>, <<"text-6xl", 60>>>>

\* the size of the first class of tailwindSizeMap the markup holds as a word
TailwindClassSize(elementHtml) ==
    LET Size(first) == IF first = 0 THEN Px(DefaultSize) ELSE Px(tailwindSizeMap[first][2])
    IN Size(Least({i \in 1..Len(tailwindSizeMap) :
                      TestExact(Cat(<<WordBoundary, Lit(tailwindSizeMap[i][1]),
                                      WordBoundary>>), elementHtml)}))

extractTailwindFontSize(elementHtml) ==
    LET Size(customSizeMatch) ==
            IF customSizeMatch # <<>> THEN ParseFloat(customSizeMatch[1].caps[1])
            ELSE TailwindClassSize(elementHtml)
    IN Size(FirstMatch(Cat(<<Lit("text-["), Group(1, Decimal), Lit("px]")>>),
                       SubjectExact(elementHtml)))

\* the weights of extractTailwindFontWeight in the order of its tests, each
\* with the name of the font, the suffix of the name and the class
tailwindWeights ==
    << <<"bold", "On_Air:Bold", ":Bold", "font-bold">>,
       <<"medium", "On_Air:Medium", ":Medium", "font-medium">>,
       <<"light", "On_Air:Light", ":Light", "font-light">>,
       <<"regular", "On_Air:Regular", ":Regular", "font-normal">> >>

\* font-(\d{3}), when no weight of the table is found
TailwindNumericWeight(elementHtml) ==
    LET Weight(fontWeightMatch) ==
            IF fontWeightMatch # <<>> THEN fontWeightMatch[1].caps[1] ELSE "regular"
    IN Weight(FirstMatch(Cat(<<Lit("font-"), Group(1, Cat(<<Digit, Digit, Digit>>))>>),
                         SubjectExact(elementHtml)))

extractTailwindFontWeight(elementHtml) ==
    LET Weight(first) ==
            IF first # 0 THEN tailwindWeights[first][1]
            ELSE TailwindNumericWeight(elementHtml)
    IN Weight(Least({i \in 1..Len(tailwindWeights) :
                        \/ Includes(elementHtml, tailwindWeights[i][2])
                        \/ Includes(elementHtml, tailwindWeights[i][3])
                        \/ TestExact(Cat(<<WordBoundary, Lit(tailwindWeights[i][4]),
                                           WordBoundary>>), elementHtml)}))

\* the staircase with the names of its two highest steps exchanged
determineTextLevelSwapped(fontSize) ==
    LET Level(first) ==
            IF first # 0 THEN TextLevels[first]
            ELSE IF fontSize >= Px(56) THEN "text2"
            ELSE IF fontSize >= Px(40) THEN "text1"
            ELSE IF fontSize >= Px(32) THEN "text3"
            ELSE IF fontSize >= Px(28) THEN "text4"
            ELSE IF fontSize >= Px(24) THEN "text5"
            ELSE IF fontSize >= Px(20) THEN "text6"
            ELSE IF fontSize >= Px(18) THEN "text7"
            ELSE IF fontSize >= Px(16) THEN "text8"
            ELSE IF fontSize >= Px(14) THEN "text9"
            ELSE "text10"
    IN Level(Least({i \in 1..Len(TextLevels) :
                       /\ fontSize >= Px(TEXT_SCALE_MAPPING[TextLevels[i]].minSize)
                       /\ fontSize <= Px(TEXT_SCALE_MAPPING[TextLevels[i]].maxSize)}))

determineTextLevel(fontSize) ==
    LET Level(first) ==
            IF first # 0 THEN TextLevels[first]
            ELSE IF fontSize >= Px(56) THEN "text1"
            ELSE IF fontSize >= Px(40) THEN "text2"
            ELSE IF fontSize >= Px(32) THEN "text3"
            ELSE IF fontSize >= Px(28) THEN "text4"
            ELSE IF fontSize >= Px(24) THEN "text5"
            ELSE IF fontSize >= Px(20) THEN "text6"
            ELSE IF fontSize >= Px(18) THEN "text7"
            ELSE IF fontSize >= Px(16) THEN "text8"
            ELSE IF fontSize >= Px(14) THEN "text9"
            ELSE "text10"
    IN Level(Least({i \in 1..Len(TextLevels) :
                       /\ fontSize >= Px(TEXT_SCALE_MAPPING[TextLevels[i]].minSize)
                       /\ fontSize <= Px(TEXT_SCALE_MAPPING[TextLevels[i]].maxSize)}))

\* the digits a string starts with
RECURSIVE DigitPrefix(_)
DigitPrefix(s) ==
    IF s # "" /\ SubSeq(s, 1, 1) \in DigitChars
    THEN SubSeq(s, 1, 1) \o DigitPrefix(SubSeq(s, 2, Len(s)))
    ELSE ""

\* parseInt of a string: <<n>> for the number n of the numeral the string
\* starts with, after white space and a sign, and <<>> for NaN
ParseIntOrNaN(s) ==
    LET Signed(sign, digits) == IF digits = "" THEN <<>> ELSE <<sign * ParseInt(digits)>>
        Of(t) ==
            IF StartsWith(t, "-") THEN Signed(-1, DigitPrefix(SubSeq(t, 2, Len(t))))
            ELSE IF StartsWith(t, "+") THEN Signed(1, DigitPrefix(SubSeq(t, 2, Len(t))))
            ELSE Signed(1, DigitPrefix(t))
    IN Of(TrimStart(s))

\* every comparison with NaN is false
NumericWeight(numericWeight) ==
    IF numericWeight # <<>> /\ numericWeight[1] <= 300 THEN "light"
    ELSE IF numericWeight # <<>> /\ numericWeight[1] <= 400 THEN "regular"
    ELSE IF numericWeight # <<>> /\ numericWeight[1] <= 600 THEN "medium"
    ELSE "bold"

WeightOfKeywords(weightLower, textLower) ==
    Least({i \in 1..Len(WeightClasses) :
              \E k \in 1..Len(WEIGHT_KEYWORDS[WeightClasses[i]]) :
                  \/ Includes(weightLower, WEIGHT_KEYWORDS[WeightClasses[i]][k])
                  \/ Includes(textLower, WEIGHT_KEYWORDS[WeightClasses[i]][k])})

determineWeight(fontWeight, cssText) ==
    LET Weight(first) ==
            IF first # 0 THEN WeightClasses[first]
            ELSE NumericWeight(ParseIntOrNaN(fontWeight))
    IN Weight(WeightOfKeywords(ToLowerCase(fontWeight), ToLowerCase(cssText)))

BaseConfidence == 5
SizeBoost == 3
WeightBoost == 2
FullConfidence == 10

\* the confidence with the boost of the weight given to the weight as it is
\* declared rather than to its class
calculateTypographyConfidenceOfDeclared(fontSize, fontWeight, textLevel, weight) ==
    Min(BaseConfidence
        + (IF /\ fontSize >= Px(TEXT_SCALE_MAPPING[textLevel].minSize)
              /\ fontSize <= Px(TEXT_SCALE_MAPPING[textLevel].maxSize)
           THEN SizeBoost ELSE 0)
        + (IF InSeq(fontWeight, TEXT_SCALE_MAPPING[textLevel].weights)
           THEN WeightBoost ELSE 0),
        FullConfidence)

calculateTypographyConfidence(fontSize, fontWeight, textLevel, weight) ==
    Min(BaseConfidence
        + (IF /\ fontSize >= Px(TEXT_SCALE_MAPPING[textLevel].minSize)
              /\ fontSize <= Px(TEXT_SCALE_MAPPING[textLevel].maxSize)
           THEN SizeBoost ELSE 0)
        + (IF InSeq(weight, TEXT_SCALE_MAPPING[textLevel].weights)
           THEN WeightBoost ELSE 0),
        FullConfidence)

\* the size and the weight after the classes of the markup are read: they
\* replace a size of 0 and an empty weight, and every size and weight when they
\* are not the default ones. An absent markup is the empty one.
ResolvedSize(fontSize, elementHtml, tailwindSize) ==
    IF elementHtml # "" /\ tailwindSize # Px(DefaultSize) THEN tailwindSize
    ELSE IF fontSize = 0 /\ elementHtml # "" THEN tailwindSize
    ELSE fontSize

ResolvedWeight(fontWeight, elementHtml, tailwindWeight) ==
    IF elementHtml # "" /\ tailwindWeight # "regular" THEN tailwindWeight
    ELSE IF fontWeight = "" /\ elementHtml # "" THEN tailwindWeight
    ELSE fontWeight

TypographyAnalysis(fontSize, fontWeight, textLevel, weight) ==
    [textLevel |-> textLevel,
     weight |-> weight,
     size |-> fontSize,
     confidence |-> calculateTypographyConfidence(fontSize, fontWeight, textLevel, weight)]

\* the analysis without its line height and its color, which the size, the
\* level, the weight and the confidence do not depend on
AnalysisOf(fontSize, fontWeight, text) ==
    TypographyAnalysis(fontSize, fontWeight, determineTextLevel(fontSize),
                       determineWeight(fontWeight, text))

\* computedStyles, the second parameter of the code, is read nowhere
analyzeTypography(cssText, elementHtml) ==
    AnalysisOf(
        ResolvedSize(extractFontSize(cssText), elementHtml,
                     extractTailwindFontSize(elementHtml)),
        ResolvedWeight(extractFontWeight(cssText), elementHtml,
                       extractTailwindFontWeight(elementHtml)),
        cssText \o elementHtml)

-----------------------------------------------------------------------------
(* Arguments of analyzeTypography *)

\* the font sizes of the styles are the whole numbers of pixels from
\* MinSizePx to MaxSizePx, and some others
MinSizePx == 10
MaxSizePx == 66

SizeNumerals == {ToString(n) : n \in MinSizePx..MaxSizePx} \cup {"0", "13.5", "48.5", "70"}

\* "" stands for a style without the declaration
SizeDeclarations ==
    {"", "font-size: large"}
        \cup {"font-size: " \o numeral \o "px" : numeral \in SizeNumerals}

WeightDeclarations ==
    {"", "font-weight: 400", "font-weight: 700", "font-weight: Light", "font-weight: 450",
     "font-weight: inherit", "font-weight: semibold"}

StyleTexts ==
    {IF size = "" THEN weight
     ELSE IF weight = "" THEN size
     ELSE size \o "; " \o weight :
        size \in SizeDeclarations, weight \in WeightDeclarations}

ElementMarkups ==
    {"", "<p class='text-[20px] font-light'>", "<h1 class='text-6xl'>",
     "<b class='font-[On_Air:Bold]'>"}

InitTypo ==
    /\ typoCall \in [pc : {"called"}, cssText : StyleTexts, elementHtml : ElementMarkups,
                     analysis : {<<>>}]
    /\ mapperCall = NotUsed
    /\ searchCall = NotUsed
    /\ extractCall = NotUsed
    /\ colorCall = NotUsed
    /\ pipeline = NotUsed
    /\ scraper = NotUsed
    /\ request = NotUsed
    /\ cacheManager = NotUsed
    /\ rateLimiter = NotUsed

AnalyzeTypography ==
    /\ typoCall.pc = "called"
    /\ typoCall' =
           [typoCall EXCEPT
               !.pc = "returned",
               !.analysis = analyzeTypography(typoCall.cssText, typoCall.elementHtml)]
    /\ UNCHANGED <<mapperCall, searchCall, extractCall, colorCall, pipeline, scraper,
                   request, cacheManager, rateLimiter>>

NextTypo == AnalyzeTypography

SpecTypo == InitTypo /\ [][NextTypo]_vars

-----------------------------------------------------------------------------
(* SkinVarsAnalyzer.analyzeSkinVarsUsage *)

\* SKIN_VARS_MAPPING.colors in the order of its declaration: the category, the
\* sub-role and the colors of every sub-role
SKIN_VARS_MAPPING ==
    << <<"text", "primary",
         <<"#000000", "#1a1a1a", "#333333", "#0b2739", "rgb(0,0,0)", "black">> >>,
       <<"text", "secondary",
         <<"#666666", "#777777", "#999999", "#6b6c6f", "rgb(102,102,102)">> >>,
       <<"text", "tertiary", <<"#999999", "#aaaaaa", "#bbbbbb", "rgb(153,153,153)">> >>,
       <<"text", "inverse", <<"#ffffff", "#fff", "white", "rgb(255,255,255)">> >>,
       <<"text", "brand", <<"#0066cc", "#007acc", "#0080ff", "rgb(0,102,204)">> >>,
       <<"text", "success", <<"#00aa44", "#00cc55", "#22cc66", "rgb(0,170,68)">> >>,
       <<"text", "warning", <<"#ff9900", "#ffaa00", "#ffbb33", "rgb(255,153,0)">> >>,
       <<"text", "error", <<"#cc0000", "#dd1122", "#ff3344", "rgb(204,0,0)">> >>,
       <<"background", "canvas", <<"#ffffff", "#fff", "white", "rgb(255,255,255)">> >>,
       <<"background", "canvasAlternative",
         <<"#f5f5f5", "#f0f0f0", "#eeeeee", "rgb(245,245,245)">> >>,
       <<"background", "container", <<"#ffffff", "#fff", "white", "rgb(255,255,255)">> >>,
       <<"background", "containerAlternative",
         <<"#fafafa", "#f8f8f8", "rgb(250,250,250)">> >>,
       <<"background", "brand", <<"#0066cc", "#007acc", "rgb(0,102,204)">> >>,
       <<"background", "brandSecondary", <<"#e6f2ff", "#f0f8ff", "rgb(230,242,255)">> >>,
       <<"border", "primary", <<"#dddddd", "#d0d0d0", "#cccccc", "rgb(221,221,221)">> >>,
       <<"border", "secondary", <<"#eeeeee", "#e8e8e8", "rgb(238,238,238)">> >>,
       <<"border", "brand", <<"#0066cc", "#007acc", "rgb(0,102,204)">> >>,
       <<"border", "selected", <<"#0066cc", "#007acc", "rgb(0,102,204)">> >>,
       <<"control", "activatedBackground", <<"#0066cc", "#007acc", "rgb(0,102,204)">> >>,
       <<"control", "deactivatedBackground",
         <<"#f5f5f5", "#f0f0f0", "rgb(245,245,245)">> >>,
       <<"control", "activatedText", <<"#ffffff", "#fff", "white", "rgb(255,255,255)">> >>,
       <<"control", "deactivatedText", <<"#999999", "#aaaaaa", "rgb(153,153,153)">> >> >>

HexChars == CharsOf("0123456789abcdef")

\* ^(#[0-9a-f]{3,8}|rgb|rgba|hsl|hsla|[a-z]+) on the lowercased color: three
\* digits after the # are enough for the test
isValidColor(color) ==
    MatchAt(Alt(<<Cat(<<Lit("#"), OneOf(HexChars), OneOf(HexChars), OneOf(HexChars)>>),
                  Plus(OneOf(LetterChars))>>),
            SubjectExact(ToLowerCase(color)), 1) # <<>>

NotSemicolon == NoneOf({";"})

\* property:\s*([^;]+)
Declaration(property) ==
    Cat(<<Lit(property \o ":"), Star(Space), Group(1, Plus(NotSemicolon))>>)

colorRegexes ==
    << <<"color", Declaration("color")>>,
       <<"background-color", Declaration("background-color")>>,
       <<"border-color", Declaration("border-color")>>,
       <<"background", Declaration("background")>>,
       \* border:\s*[^;]*?([#\w\(\),\s]+)[^;]*?
       <<"border",
         Cat(<<Lit("border:"), Star(Space), LazyStar(NotSemicolon),
               Group(1, Plus(OneOf(WordChars \cup SpaceChars \cup {"#", "(", ")", ","}))),
               LazyStar(NotSemicolon)>>)>> >>

\* the valid colors one pattern of colorRegexes finds, normalized
ColorsOfProperty(property, found) ==
    LET Valid(color) == isValidColor(color.value)
    IN SelectSeq([i \in 1..Len(found) |->
                     [property |-> property,
                      value |-> normalizeColor(Trim(found[i].caps[1]))]], Valid)

extractColorProperties(cssText) ==
    Flatten([i \in 1..Len(colorRegexes) |->
                ColorsOfProperty(colorRegexes[i][1], Matches(colorRegexes[i][2], cssText))])

\* [0-9a-fA-F]
HexDigit == OneOf(HexChars \cup CharsOf("ABCDEF"))

\* prefix-\[(#[0-9a-fA-F]{6}|#[0-9a-fA-F]{3})\]
BracketColor(prefix) ==
    Cat(<<Lit(prefix \o "-["),
          Group(1, Alt(<<Cat(<<Lit("#"), HexDigit, HexDigit, HexDigit, HexDigit, HexDigit,
                               HexDigit>>),
                         Cat(<<Lit("#"), HexDigit, HexDigit, HexDigit>>)>>)),
          Lit("]")>>)

\* the color of the first bracket class of a prefix, if there is one
BracketColorOf(prefix, property, elementHtml) ==
    LET Color(colorMatch) ==
            IF colorMatch # <<>>
            THEN <<[property |-> property, value |-> colorMatch[1].caps[1]]>> ELSE <<>>
    IN Color(FirstMatch(BracketColor(prefix), SubjectExact(elementHtml)))

tailwindColorMap ==
    << <<"text-black", "color", "#000000">>,
       <<"text-white", "color", "#ffffff">>,
       <<"text-gray-900", "color", "#111827">>,
       <<"text-gray-800", "color", "#1f2937">>,
       <<"text-gray-700", "color", "#374151">>,
       <<"text-gray-600", "color", "#4b5563">>,
       <<"text-gray-500", "color", "#6b7280">>,
       <<"text-gray-400", "color", "#9ca3af">>,
       <<"text-blue-600", "color", "#2563eb">>,
       <<"text-blue-500", "color", "#3b82f6">>,
       <<"bg-white", "background-color", "#ffffff">>,
       <<"bg-gray-50", "background-color", "#f9fafb">>,
       <<"bg-gray-100", "background-color", "#f3f4f6">>,
       <<"bg-blue-500", "background-color", "#3b82f6">> >>

extractTailwindColors(elementHtml) ==
    LET Held(row) == Includes(elementHtml, row[1])
        Colors(rows) == [i \in 1..Len(rows) |-> [property |-> rows[i][2], value |-> rows[i][3]]]
    IN BracketColorOf("text", "color", elementHtml)
       \o BracketColorOf("bg", "background-color", elementHtml)
       \o BracketColorOf("border", "border-color", elementHtml)
       \o Colors(SelectSeq(tailwindColorMap, Held))

\* a context that looks at the element before the property
determineColorContextOfElement(property, element) ==
    IF Includes(ToLowerCase(element), "button") THEN "control"
    ELSE IF Includes(property, "background") THEN "background"
    ELSE IF Includes(property, "border") THEN "border"
    ELSE "text"

determineColorContext(property, element) ==
    IF Includes(property, "background") THEN "background"
    ELSE IF Includes(property, "border") THEN "border"
    ELSE IF property = "color" THEN "text"
    ELSE IF Includes(ToLowerCase(element), "button") THEN "control"
    ELSE IF Includes(ToLowerCase(element), "text") \/ Includes(ToLowerCase(element), "span")
         THEN "text"
    ELSE IF Includes(ToLowerCase(element), "div")
            \/ Includes(ToLowerCase(element), "container") THEN "background"
    ELSE "text"

colorsMatch(color1, color2) == color1 = color2

\* the confidences of a color are counted in tenths. The sums of the doubles
\* fall short of them by one unit in the last place (0.7 + 0.1 is
\* 0.7999999999999999, 0.7 + 0.2 is 0.8999999999999999 and 0.7 + 0.2 + 0.1 is
\* 0.9999999999999999), which leaves their order as it is here
MatchConfidence == 7
ContextBonus == 2
ExactBonus == 1

calculateColorConfidence(actualColor, skinColor, context, category) ==
    Min(MatchConfidence
        + (IF context = category THEN ContextBonus ELSE 0)
        + (IF actualColor = skinColor THEN ExactBonus ELSE 0),
        FullConfidence)

\* the matches of a color in the order the table is searched: one for every
\* color of the table that is the color once normalized
SkinVarCandidates(normalizedColor, context) ==
    LET OfRow(row) ==
            LET Matching(skinColor) == colorsMatch(normalizedColor, normalizeColor(skinColor))
                Found(colors) ==
                    [i \in 1..Len(colors) |->
                        [varName |-> "skinVars.colors." \o row[2],
                         category |-> row[1],
                         confidence |->
                             calculateColorConfidence(normalizedColor,
                                                      normalizeColor(colors[i]), context,
                                                      row[1])]]
            IN Found(SelectSeq(row[3], Matching))
    IN Flatten([i \in 1..Len(SKIN_VARS_MAPPING) |-> OfRow(SKIN_VARS_MAPPING[i])])

\* the last of the candidates whose confidence no other one exceeds
BestCandidateLast(candidates) ==
    LET Best(last) == IF last = 0 THEN <<>> ELSE <<candidates[last]>>
    IN Best(Least({i \in 1..Len(candidates) :
                      \A j \in 1..Len(candidates) :
                          \/ candidates[j].confidence < candidates[i].confidence
                          \/ candidates[j].confidence = candidates[i].confidence /\ j <= i}))

\* the first of the candidates whose confidence no other one exceeds; <<>>
\* stands for null
BestCandidate(candidates) ==
    LET Best(first) == IF first = 0 THEN <<>> ELSE <<candidates[first]>>
    IN Best(Least({i \in 1..Len(candidates) :
                      \A j \in 1..Len(candidates) :
                          candidates[j].confidence <= candidates[i].confidence}))

findBestSkinVarMatch(color, property, element) ==
    BestCandidate(SkinVarCandidates(normalizeColor(color),
                                    determineColorContext(property, element)))

\* the colors analyzeSkinVarsUsage goes through, each with what
\* findBestSkinVarMatch returns for it
SkinVarMatches(cssText, element, elementHtml) ==
    LET Matched(colorProperties) ==
            [i \in 1..Len(colorProperties) |->
                [property |-> colorProperties[i].property,
                 value |-> colorProperties[i].value,
                 skinVar |-> findBestSkinVarMatch(colorProperties[i].value,
                                                  colorProperties[i].property, element)]]
    IN Matched(extractColorProperties(cssText)
               \o (IF elementHtml # "" THEN extractTailwindColors(elementHtml) ELSE <<>>))

\* the mappings of the colors that have a match
MappingsOf(matches) ==
    LET Mapping(color) ==
            IF color.skinVar = <<>> THEN <<>>
            ELSE <<[figmaColor |-> color.value,
                    skinVar |-> color.skinVar[1].varName,
                    category |-> color.skinVar[1].category,
                    confidence |-> color.skinVar[1].confidence]>>
    IN Flatten([i \in 1..Len(matches) |-> Mapping(matches[i])])

\* an absent markup is the empty one
analyzeSkinVarsUsage(cssText, element, elementHtml) ==
    MappingsOf(SkinVarMatches(cssText, element, elementHtml))

-----------------------------------------------------------------------------
(* Arguments of analyzeSkinVarsUsage *)

ColorPropertyNames == {"color", "background-color", "border-color", "background", "border"}

\* colors of the table as they are written there, written otherwise, and
\* colors and values the table does not have
WrittenColors ==
    {"#ffffff", "#FFF", "rgb(255, 255, 255)", "#0066CC", "#999999", "#f5f5f5", "#eeeeee",
     "black", "#123456", "12px"}

ElementNames == {"button", "span"}

ColoredMarkups ==
    {"", "<span class=\"text-[#FFF] bg-white\">", "<div class=\"border-[#0066cc]\">"}

\* the style of one declaration
StyleOfColor(property, literal) == property \o ": " \o literal

InitSkinVars ==
    /\ colorCall \in [pc : {"called"}, property : ColorPropertyNames, literal : WrittenColors,
                      element : ElementNames, elementHtml : ColoredMarkups,
                      matches : {<<>>}, mappings : {<<>>}]
    /\ mapperCall = NotUsed
    /\ searchCall = NotUsed
    /\ extractCall = NotUsed
    /\ typoCall = NotUsed
    /\ pipeline = NotUsed
    /\ scraper = NotUsed
    /\ request = NotUsed
    /\ cacheManager = NotUsed
    /\ rateLimiter = NotUsed

AnalyzeSkinVarsUsage ==
    /\ colorCall.pc = "called"
    /\ \E matches \in {SkinVarMatches(StyleOfColor(colorCall.property, colorCall.literal),
                                       colorCall.element, colorCall.elementHtml)} :
           colorCall' = [colorCall EXCEPT !.pc = "returned",
                                          !.matches = matches,
                                          !.mappings = MappingsOf(matches)]
    /\ UNCHANGED <<mapperCall, searchCall, extractCall, typoCall, pipeline, scraper, request,
                   cacheManager, rateLimiter>>

NextSkinVars == AnalyzeSkinVarsUsage

SpecSkinVars == InitSkinVars /\ [][NextSkinVars]_vars

-----------------------------------------------------------------------------
(* FigmaAnalyzer.analyzeFigmaCode *)

\* RegExp.prototype.test of a g pattern whose lastIndex is the given one: the
\* search starts there, and leaves the end of the match, or 0 without a match
TestGlobal(r, code, lastIndex) ==
    LET Starting(subj) ==
            LET At(i) ==
                    IF i = 0 THEN [found |-> FALSE, lastIndex |-> 0]
                    ELSE [found |-> TRUE, lastIndex |-> MatchAt(r, subj, i)[1].pos - 1]
            IN At(Least({i \in (lastIndex + 1)..(subj.len + 1) : MatchAt(r, subj, i) # <<>>}))
    IN Starting(Subject(code))

\* the lastIndex of a pattern left in place between two calls
LastIndexOfKeptPattern(left) == left

\* the lastIndex of a pattern literal: the literal is evaluated at every call
\* and makes a new pattern, whatever the pattern of the call before was left with
LastIndexOfLiteral(left) == 0

\* the four patterns of extractMetadata, in the order of the fields. The
\* alternative of hasCSS that ends with a backquote is left out: no markup of
\* the model holds a backquote
metadataPatterns ==
    <<Alt(<<Lit("export default function"), Cat(<<Lit("function "), Plus(WordChar)>>),
            Cat(<<Lit("const "), Plus(WordChar), Lit(" = ")>>), Lit("react.")>>),
      Alt(<<Lit("interface"), Lit("type "), Cat(<<Lit(": "), Plus(WordChar)>>),
            Cat(<<Lit("<"), Plus(WordChar), Lit(">")>>)>>),
      Alt(<<Lit("classname"), Lit("style="), Lit("styled.")>>),
      Alt(<<Lit("src="), Lit("image"), Lit("img"), Lit("picture")>>)>>

\* the four tests of extractMetadata; left holds what the patterns of the call
\* before were left with
MetadataTests(figmaCode, left) ==
    [i \in 1..Len(metadataPatterns) |->
        TestGlobal(metadataPatterns[i], figmaCode, LastIndexOfLiteral(left[i]))]

extractMetadata(figmaCode, left) ==
    LET Of(tests) ==
            [codeLength |-> Len(figmaCode),
             hasReactComponents |-> tests[1].found,
             hasTypeScript |-> tests[2].found,
             hasCSS |-> tests[3].found,
             hasImages |-> tests[4].found]
    IN Of(MetadataTests(figmaCode, left))

\* what the four patterns are left with when extractMetadata returns
LeftByMetadata(figmaCode, left) ==
    LET Of(tests) == [i \in 1..Len(tests) |-> tests[i].lastIndex]
    IN Of(MetadataTests(figmaCode, left))

\* \w of a pattern without the i flag
AnyWordChar == OneOf(WordChars \cup CharsOf(UpperChars))

\* <(\w+)
extractElementType(elementHtml) ==
    LET TagOf(tagMatch) == IF tagMatch # <<>> THEN tagMatch[1].caps[1] ELSE "div"
    IN TagOf(FirstMatch(Cat(<<Lit("<"), Group(1, Plus(AnyWordChar))>>),
                      SubjectExact(elementHtml)))

NotQuote == NoneOf({"\""})
NotClosing == NoneOf({">"})

\* style="([^"]*)"
StyleAttribute == Cat(<<Lit("style=\""), Group(1, Star(NotQuote)), Lit("\"")>>)

\* the text of the style attribute of an element, <<>> if it has none
StyleOf(fullMatch) ==
    LET Style(styleMatch) == IF styleMatch # <<>> THEN <<styleMatch[1].caps[1]>> ELSE <<>>
    IN Style(FirstMatch(StyleAttribute, SubjectExact(fullMatch)))

\* (?:div|p|span|h[1-6])
TextTag ==
    Alt(<<Lit("div"), Lit("p"), Lit("span"), Cat(<<Lit("h"), OneOf(CharsOf("123456"))>>)>>)

\* the pattern of the text elements, which has the g and s flags
TextElement ==
    Cat(<<Lit("<"), TextTag, Star(NotClosing),
          Alt(<<Cat(<<Lit("className=\""), Star(NotQuote),
                      Alt(<<Lit("text-"), Lit("font-")>>), Star(NotQuote), Lit("\"")>>),
                Cat(<<Lit("style=\""), Star(NotQuote), Lit("font"), Star(NotQuote),
                      Lit("\"")>>)>>),
          Star(NotClosing), Lit(">"), Lazily, Lit("</"), TextTag, Lit(">")>>)

\* the pattern of the button elements, which has the g and s flags
ButtonElement ==
    Alt(<<Cat(<<Lit("<button"), Star(NotClosing), Lit(">"), Lazily, Lit("</button>")>>),
          Cat(<<Lit("<div"), Star(NotClosing), OneOf({"B", "b"}), Lit("utton"),
                Star(NotClosing), Lit(">"), Lazily, Lit("</div>")>>)>>)

\* String.prototype.matchAll of a pattern without the i flag
MatchesExact(r, code) == MatchesFrom(r, SubjectExact(code), 1)

\* the css text of a text element: '' without a style attribute
CssTextOf(fullMatch) ==
    LET Text(style) == IF style = <<>> THEN "" ELSE style[1]
    IN Text(StyleOf(fullMatch))

TypographyOf(fullMatch) == analyzeTypography(CssTextOf(fullMatch), fullMatch)

\* the confidence above which a typography enters the hierarchy, in tenths
HierarchyConfidence == 6

\* the label of a typography, if it is confident enough
HierarchyLabel(typography) ==
    IF typography.confidence > HierarchyConfidence
    THEN <<typography.textLevel \o " (" \o typography.weight \o ")">> ELSE <<>>

\* the level a label is sorted by: parseInt(label.match(/text(\d+)/)?.[1] || '10')
DefaultLevel == 10

LabelLevel(label) ==
    LET Level(levelMatch) ==
            IF levelMatch # <<>> THEN ParseInt(levelMatch[1].caps[1]) ELSE DefaultLevel
    IN Level(FirstMatch(Cat(<<Lit("text"), Group(1, Plus(Digit))>>), SubjectExact(label)))

\* Array.prototype.sort by the level, which keeps the order of equal levels
RECURSIVE InsertByLevel(_, _)
InsertByLevel(sorted, label) ==
    IF sorted = <<>> THEN <<label>>
    ELSE IF LabelLevel(Head(sorted)) <= LabelLevel(label)
         THEN <<Head(sorted)>> \o InsertByLevel(Tail(sorted), label)
         ELSE <<label>> \o sorted

RECURSIVE SortByLevel(_)
SortByLevel(labels) ==
    IF labels = <<>> THEN <<>>
    ELSE InsertByLevel(SortByLevel(SubSeq(labels, 1, Len(labels) - 1)), labels[Len(labels)])

\* the texts of the analysis and the colors the text elements add to the tokens
analyzeTexts(figmaCode) ==
    LET Of(textElements) ==
            LET Typographies(found) == [i \in 1..Len(found) |-> TypographyOf(found[i].text)]
                Labels(found) ==
                    Flatten([i \in 1..Len(found) |->
                                HierarchyLabel(TypographyOf(found[i].text))])
                Colors(found) ==
                    Flatten([i \in 1..Len(found) |->
                                analyzeSkinVarsUsage(CssTextOf(found[i].text),
                                                     extractElementType(found[i].text),
                                                     found[i].text)])
            IN [found |-> textElements # <<>>,
                count |-> Len(textElements),
                hierarchy |-> SortByLevel(Unique(Labels(textElements))),
                typography |-> Typographies(textElements),
                skinVarsSuggestions |-> Colors(textElements)]
    IN Of(MatchesExact(TextElement, figmaCode))

\* the buttons of the analysis, <<>> when there is no button element, and the
\* colors the button elements add to the tokens
analyzeButtons(figmaCode) ==
    LET Of(buttonElements) ==
            LET ColorsOf(style) ==
                    IF style = <<>> THEN <<>> ELSE analyzeSkinVarsUsage(style[1], "button", "")
                Colors(found) ==
                    Flatten([i \in 1..Len(found) |-> ColorsOf(StyleOf(found[i].text))])
            IN [buttons |->
                    IF buttonElements = <<>> THEN <<>>
                    ELSE <<[found |-> TRUE,
                            count |-> Len(buttonElements),
                            hasActions |-> Includes(figmaCode, "onClick")
                                           \/ Includes(figmaCode, "click")]>>,
                colors |-> Colors(buttonElements)]
    IN Of(MatchesExact(ButtonElement, figmaCode))

\* the families of the elements after mapExistingElements: the families the
\* enhanced analysis has not found are those of the extractor
mapExistingElements(elements, texts, buttons) ==
    [buttons |-> IF buttons # <<>> THEN buttons[1] ELSE elements.buttons,
     texts |-> texts,
     lists |-> elements.lists,
     containers |-> elements.containers,
     icons |-> elements.icons,
     inputs |-> elements.inputs,
     navigation |-> elements.navigation]

AnalysisWith(figmaCode, left, elements, structure, patterns, texts, buttons) ==
    [elements |-> mapExistingElements(elements, texts, buttons.buttons),
     structure |->
         [layoutType |-> structure.layoutType,
          hasGrid |-> Includes(figmaCode, "grid") \/ Includes(figmaCode, "Grid"),
          hasFlexbox |-> Includes(figmaCode, "flex") \/ Includes(figmaCode, "Flex")],
     patterns |->
         [listPattern |-> patterns.listPattern,
          cardPattern |-> patterns.cardPattern,
          formPattern |-> patterns.formPattern,
          navigationPattern |-> patterns.navigationPattern,
          modalPattern |-> patterns.modalPattern],
     designTokens |->
         [typography |-> texts.typography,
          colors |-> texts.skinVarsSuggestions \o buttons.colors,
          spacing |-> <<>>],
     complexity |-> calculateCodeComplexity(figmaCode),
     metadata |-> extractMetadata(figmaCode, left)]

\* left holds what the patterns of extractMetadata were left with by the call
\* before
analyzeFigmaCode(figmaCode, left) ==
    AnalysisWith(figmaCode, left, extractUIElements(figmaCode), analyzeStructure(figmaCode),
                 detectVisualPatterns(figmaCode), analyzeTexts(figmaCode),
                 analyzeButtons(figmaCode))

-----------------------------------------------------------------------------
(* The callers of the pipeline (MisticaTools.searchComponents and
   MisticaTools.mapFigmaToMistica), called again and again in any order *)

\* a history holds at most this many calls
MaxPipelineCalls == 3

PipelineMarkups ==
    {"<p style=\"font-size: 20px\">Pay</p>",
     "<button style=\"color: #fff\">ok</button>"}

\* the markups handed to the extractor alone and to the mapper
MappedMarkups == {"<button style=\"color: #fff\">ok</button>"}

PipelineCatalog == CatalogButtons

PipelineQueries == {"button"}

\* no pattern has been used yet
NoLastIndex == [i \in 1..Len(metadataPatterns) |-> 0]

InitPipeline ==
    /\ pipeline = [history |-> <<>>, left |-> NoLastIndex]
    /\ mapperCall = NotUsed
    /\ searchCall = NotUsed
    /\ extractCall = NotUsed
    /\ colorCall = NotUsed
    /\ typoCall = NotUsed
    /\ scraper = NotUsed
    /\ request = NotUsed
    /\ cacheManager = NotUsed
    /\ rateLimiter = NotUsed

\* the call is added to the history with its result
Returned(operation, arguments, result) ==
    pipeline' = [pipeline EXCEPT
                    !.history = Append(@, [operation |-> operation, arguments |-> arguments,
                                           result |-> result])]

CallExtractUIElements ==
    /\ Len(pipeline.history) < MaxPipelineCalls
    /\ \E code \in MappedMarkups :
           Returned("extractUIElements", <<code>>, extractUIElements(code))
    /\ UNCHANGED <<mapperCall, searchCall, extractCall, colorCall, typoCall, scraper,
                   request, cacheManager, rateLimiter>>

CallAnalyzeFigmaCode ==
    /\ Len(pipeline.history) < MaxPipelineCalls
    /\ \E figmaCode \in PipelineMarkups :
           pipeline' =
               [history |->
                    Append(pipeline.history,
                           [operation |-> "analyzeFigmaCode", arguments |-> <<figmaCode>>,
                            result |-> analyzeFigmaCode(figmaCode, pipeline.left)]),
                left |-> LeftByMetadata(figmaCode, pipeline.left)]
    /\ UNCHANGED <<mapperCall, searchCall, extractCall, colorCall, typoCall, scraper,
                   request, cacheManager, rateLimiter>>

\* mapFigmaToMistica hands the mapper what the analysis of the markup holds
CallFindMisticaEquivalents ==
    /\ Len(pipeline.history) < MaxPipelineCalls
    /\ \E figmaCode \in MappedMarkups :
           Returned("findMisticaEquivalents", <<figmaCode, PipelineCatalog>>,
                    findMisticaEquivalents(extractUIElements(figmaCode),
                                           analyzeStructure(figmaCode),
                                           detectVisualPatterns(figmaCode), PipelineCatalog))
    /\ UNCHANGED <<mapperCall, searchCall, extractCall, colorCall, typoCall, scraper,
                   request, cacheManager, rateLimiter>>

CallSmartSearchComponents ==
    /\ Len(pipeline.history) < MaxPipelineCalls
    /\ \E query \in PipelineQueries :
           Returned("smartSearchComponents", <<PipelineCatalog, query>>,
                    smartSearchComponents(PipelineCatalog, query))
    /\ UNCHANGED <<mapperCall, searchCall, extractCall, colorCall, typoCall, scraper,
                   request, cacheManager, rateLimiter>>

NextPipeline ==
    \/ CallExtractUIElements
    \/ CallAnalyzeFigmaCode
    \/ CallFindMisticaEquivalents
    \/ CallSmartSearchComponents

SpecPipeline == InitPipeline /\ [][NextPipeline]_vars

-----------------------------------------------------------------------------
(* MisticaScraper.getAllComponents and MisticaTools.getCacheStatus *)

\* the names of getExpandedKnownComponents, category after category
componentMap ==
    <<<<"components", <<"Avatar", "Badge", "Breadcrumbs", "Button", "Callout", "Card",
                         "Checkbox", "Counter", "Divider", "Input", "LoadingBar", "Logo",
                         "Modal", "Popover", "ProgressBar", "RadioButton", "Select",
                         "Sheet", "Snackbar", "Spinner", "StackingGroup", "Stepper",
                         "Switch", "Table", "Tabs", "Tag", "TextField", "TextLink",
                         "Timeline", "Tooltip">> >>,
       <<"layout", <<"Align", "Box", "ButtonLayout", "Grid", "HorizontalScroll",
                     "MasterDetail", "Stack">> >>,
       <<"utilities", <<"FixedToTop", "OverscrollColor", "SkinVars", "Theme">> >>,
       <<"hooks", <<"useDocumentVisibility", "useElementDimensions", "useIsInViewport",
                    "useModalState", "useScreenSize", "useTheme", "useWindowSize">> >>,
       <<"icons", <<"Icon", "IconCatalog">> >>,
       <<"community", <<"AdvancedDataCard", "AdvancedDataCarousel", "ExampleComponent">> >>,
       <<"lab", <<"Autocomplete">> >> >>

\* of a component the scraper's catalog keeps the name and the category here
getExpandedKnownComponents ==
    Flatten([c \in 1..Len(componentMap) |->
                [i \in 1..Len(componentMap[c][2]) |->
                    [name |-> componentMap[c][2][i], category |-> componentMap[c][1]]]])

\* the key of removeDuplicateComponents
ComponentKey(comp) == comp.category \o "-" \o ToLowerCase(comp.name)

\* a filter that lets every component through
removeNoComponents(components) == components

\* components.filter with the set of the keys seen: the first component of
\* every key
removeDuplicateComponents(components) ==
    LET First(i) == \A j \in 1..(i - 1) : ComponentKey(components[j]) # ComponentKey(components[i])
        RECURSIVE Kept(_)
        Kept(i) == IF i > Len(components) THEN <<>>
                   ELSE (IF First(i) THEN <<components[i]>> ELSE <<>>) \o Kept(i + 1)
    IN Kept(1)

\* the components of the npm package, then the components of the Storybook
\* whose lowercased name no component of the package has
mergeComponentData(npmComponents, storybookComponents) ==
    LET Added(storybookComp) ==
            \A i \in 1..Len(npmComponents) :
                ToLowerCase(npmComponents[i].name) # ToLowerCase(storybookComp.name)
    IN npmComponents \o SelectSeq(storybookComponents, Added)

\* The sources. What the npm analyzer gives: it throws, or it returns
\* components; unnamed tells that one of them has no name, which makes every
\* name.toLowerCase() over the list throw a TypeError.
NpmSource(threw, components, unnamed) ==
    [threw |-> threw, components |-> components, unnamed |-> unnamed]

NpmSources ==
    {NpmSource(TRUE, <<>>, FALSE),
     NpmSource(FALSE, <<[name |-> "Button", category |-> "components"],
                        [name |-> "button", category |-> "components"],
                        [name |-> "Box", category |-> "layout"]>>, FALSE),
     NpmSource(FALSE, <<[name |-> "Stack", category |-> "layout"],
                        [name |-> "Stack", category |-> "layout"]>>, TRUE)}

\* what scrapeFromStoriesApi returns: it catches its errors and returns []
StorybookSources ==
    {<<>>,
     <<[name |-> "Button", category |-> "lab"],
       [name |-> "Tag", category |-> "components"],
       [name |-> "TAG", category |-> "components"],
       [name |-> "Tag", category |-> "community"]>>}

\* lines 38-67 of getAllComponents: the components handed to
\* removeDuplicateComponents
Collected(npm, storybook) ==
    LET fromNpm == IF npm.threw THEN <<>> ELSE npm.components
        \* the merge throws when a component of the package has no name, and
        \* the components stay those of the package
        merged == IF npm.unnamed THEN fromNpm ELSE mergeComponentData(fromNpm, storybook)
    IN IF Len(merged) = 0 THEN getExpandedKnownComponents ELSE merged

\* getAllComponents without a cache entry: what it returns and stores. The
\* filter throws on a component without name, and the catch of line 78 takes
\* the known components as they are
Discovered(npm, storybook) ==
    IF npm.unnamed /\ ~npm.threw
    THEN [components |-> getExpandedKnownComponents, path |-> "error"]
    ELSE [components |-> removeDuplicateComponents(Collected(npm, storybook)),
          path |-> IF (npm.threw \/ npm.components = <<>>) /\ storybook = <<>>
                   THEN "known" ELSE "fresh"]

\* cache holds the entry of all_components_combined: <<>> without one, or
\* with one that expired
AllComponents ==
    IF scraper.cache # <<>>
    THEN [components |-> scraper.cache[1], path |-> "cache"]
    ELSE Discovered(scraper.npm, scraper.storybook)

NoStatus == [refresh |-> FALSE, components |-> <<>>, path |-> "none"]

InitScraper ==
    /\ scraper \in [cache : {<<>>}, npm : NpmSources, storybook : StorybookSources,
                    returned : {<<>>}, path : {"none"}, status : {NoStatus}]
    /\ mapperCall = NotUsed
    /\ searchCall = NotUsed
    /\ extractCall = NotUsed
    /\ colorCall = NotUsed
    /\ typoCall = NotUsed
    /\ pipeline = NotUsed
    /\ request = NotUsed
    /\ cacheManager = NotUsed
    /\ rateLimiter = NotUsed

\* a caller other than the cache status
GetAllComponents ==
    /\ \E result \in {AllComponents} :
           scraper' = [scraper EXCEPT
                          !.cache = <<result.components>>,
                          !.returned = <<result.components>>,
                          !.path = result.path]
    /\ UNCHANGED <<mapperCall, searchCall, extractCall, colorCall, typoCall, pipeline,
                   request, cacheManager, rateLimiter>>

\* refresh is logged and reported, and read nowhere else
GetCacheStatus ==
    /\ \E refresh \in BOOLEAN, result \in {AllComponents} :
           scraper' = [scraper EXCEPT
                          !.cache = <<result.components>>,
                          !.status = [refresh |-> refresh,
                                      components |-> result.components,
                                      path |-> result.path]]
    /\ UNCHANGED <<mapperCall, searchCall, extractCall, colorCall, typoCall, pipeline,
                   request, cacheManager, rateLimiter>>

\* the package or the Storybook is published anew
SourcesChange ==
    /\ \E npm \in NpmSources, storybook \in StorybookSources :
           /\ <<npm, storybook>> # <<scraper.npm, scraper.storybook>>
           /\ scraper' = [scraper EXCEPT !.npm = npm, !.storybook = storybook]
    /\ UNCHANGED <<mapperCall, searchCall, extractCall, colorCall, typoCall, pipeline,
                   request, cacheManager, rateLimiter>>

\* the 240 minutes of the entry pass
CacheExpires ==
    /\ scraper.cache # <<>>
    /\ scraper' = [scraper EXCEPT !.cache = <<>>]
    /\ UNCHANGED <<mapperCall, searchCall, extractCall, colorCall, typoCall, pipeline,
                   request, cacheManager, rateLimiter>>

NextScraper == GetAllComponents \/ GetCacheStatus \/ SourcesChange \/ CacheExpires

SpecScraper == InitScraper /\ [][NextScraper]_vars

-----------------------------------------------------------------------------
(* MisticaScraper.makeRequest *)

\* config.retryAttempts and config.retryDelay, in milliseconds
retryAttempts == 3
retryDelay == 1000

\* a test that lets one retry more through
RetriesLeftOrLast(retries) == retries <= retryAttempts

\* retries < this.config.retryAttempts
RetriesLeft(retries) == retries < retryAttempts

RequestUrls == {"https://mistica-web.vercel.app/stories.json", "https://mistica-web.vercel.app"}

\* what axios.get rejects with
RequestErrors == {"ETIMEDOUT", "ECONNRESET", "status 500"}

\* errors are the errors of the calls of axios.get so far, delays the delays
\* waited, outcome the response returned or the error thrown to the caller
InitRequest ==
    /\ request \in [pc : {"get"}, url : RequestUrls, retries : {0}, errors : {<<>>},
                    delays : {<<>>}, outcome : {<<>>}]
    /\ mapperCall = NotUsed
    /\ searchCall = NotUsed
    /\ extractCall = NotUsed
    /\ colorCall = NotUsed
    /\ typoCall = NotUsed
    /\ pipeline = NotUsed
    /\ scraper = NotUsed
    /\ cacheManager = NotUsed
    /\ rateLimiter = NotUsed

\* axios.get resolves: the response is returned through every level of the
\* recursion
GetResolves ==
    /\ request.pc = "get"
    /\ request' = [request EXCEPT
                      !.pc = "returned",
                      !.outcome = <<[url |-> request.url,
                                     call |-> Len(request.errors) + 1]>>]
    /\ UNCHANGED <<mapperCall, searchCall, extractCall, colorCall, typoCall, pipeline, scraper,
                   cacheManager, rateLimiter>>

\* axios.get rejects, or times out after its 10 seconds: the catch starts a
\* delay, or throws the error
GetRejects ==
    /\ request.pc = "get"
    /\ \E error \in RequestErrors :
           request' =
               IF RetriesLeft(request.retries)
               THEN [request EXCEPT
                        !.pc = "delay",
                        !.errors = Append(@, error),
                        !.delays = Append(@, retryDelay * (request.retries + 1))]
               ELSE [request EXCEPT
                        !.pc = "thrown",
                        !.errors = Append(@, error),
                        !.outcome = <<error>>]
    /\ UNCHANGED <<mapperCall, searchCall, extractCall, colorCall, typoCall, pipeline, scraper,
                   cacheManager, rateLimiter>>

\* the timer of delay fires: makeRequest(url, retries + 1)
DelayPasses ==
    /\ request.pc = "delay"
    /\ request' = [request EXCEPT !.pc = "get", !.retries = @ + 1]
    /\ UNCHANGED <<mapperCall, searchCall, extractCall, colorCall, typoCall, pipeline, scraper,
                   cacheManager, rateLimiter>>

NextRequest == GetResolves \/ GetRejects \/ DelayPasses

\* axios.get settles within its timeout and a timer fires
SpecRequest == InitRequest /\ [][NextRequest]_vars /\ WF_vars(NextRequest)

-----------------------------------------------------------------------------
(* CacheManager *)

\* the clock, in minutes, is followed up to here
MaxNow == 3

\* the key of the catalog of MisticaScraper
CacheKeys == {"all_components_combined"}

CacheData == {"v1", "v2"}

\* ttlMinutes, in minutes
CacheTTLs == {1, 2}

\* the file of a key: the key has letters and underscores only, which the
\* replace of getCacheFilePath keeps
getCacheFilePath(key) == key \o ".json"

CacheFiles == {getCacheFilePath(key) : key \in CacheKeys}

\* <<>> stands for a key the map does not have, and for a file that does not
\* exist
NoEntry == <<>>

NoCall == [op |-> "none", key |-> "", at |-> 0, result |-> <<>>]

\* last is the last call that completed, the minute it was made at and what
\* it returned or threw;
\* deleted has the keys whose delete completed with no set after it
InitCacheManager ==
    /\ cacheManager = [memoryCache |-> [key \in CacheKeys |-> NoEntry],
                       files |-> [file \in CacheFiles |-> NoEntry],
                       now |-> 0,
                       last |-> NoCall,
                       deleted |-> {}]
    /\ mapperCall = NotUsed
    /\ searchCall = NotUsed
    /\ extractCall = NotUsed
    /\ colorCall = NotUsed
    /\ typoCall = NotUsed
    /\ pipeline = NotUsed
    /\ scraper = NotUsed
    /\ request = NotUsed
    /\ rateLimiter = NotUsed

\* get: what it returns (<<>> for null), and the map and the files it leaves
GetOf(key) ==
    LET memoryEntry == cacheManager.memoryCache[key]
        filePath == getCacheFilePath(key)
        entry == cacheManager.files[filePath]
        Left(result, memoryCache, files) ==
            [result |-> result, memoryCache |-> memoryCache, files |-> files]
    IN IF memoryEntry # NoEntry /\ cacheManager.now < memoryEntry[1].expiry
       THEN Left(memoryEntry, cacheManager.memoryCache, cacheManager.files)
       \* readFile throws, and the catch returns null
       ELSE IF entry = NoEntry
       THEN Left(NoEntry, cacheManager.memoryCache, cacheManager.files)
       \* isExpired: this.delete(key) unlinks the file
       ELSE IF cacheManager.now > entry[1].expiry
       THEN Left(NoEntry, cacheManager.memoryCache,
                 [cacheManager.files EXCEPT ![filePath] = NoEntry])
       ELSE Left(entry, [cacheManager.memoryCache EXCEPT ![key] = entry],
                 cacheManager.files)

CacheGet ==
    /\ \E key \in CacheKeys, got \in {"get", "has"} :
           cacheManager' =
               [cacheManager EXCEPT
                   !.memoryCache = GetOf(key).memoryCache,
                   !.files = GetOf(key).files,
                   !.last = [op |-> got, key |-> key, at |-> cacheManager.now,
                             result |-> GetOf(key).result]]
    /\ UNCHANGED <<mapperCall, searchCall, extractCall, colorCall, typoCall, pipeline, scraper,
                   request, rateLimiter>>

\* set: the file is written and then the map is set; when the write fails
\* the error is logged and nothing is set
CacheSet ==
    /\ \E key \in CacheKeys, data \in CacheData, ttl \in CacheTTLs, written \in BOOLEAN :
           LET entry == <<[data |-> data, expiry |-> cacheManager.now + ttl]>>
           IN cacheManager' =
                  [cacheManager EXCEPT
                      !.memoryCache = IF written THEN [@ EXCEPT ![key] = entry] ELSE @,
                      !.files = IF written THEN [@ EXCEPT ![getCacheFilePath(key)] = entry]
                                ELSE @,
                      !.last = [op |-> "set", key |-> key, at |-> cacheManager.now,
                                result |-> <<written>>],
                      !.deleted = @ \ {key}]
    /\ UNCHANGED <<mapperCall, searchCall, extractCall, colorCall, typoCall, pipeline, scraper,
                   request, rateLimiter>>

\* delete: fs.unlink of the file; without the file it rejects
CacheDelete ==
    /\ \E key \in CacheKeys :
           cacheManager' =
               IF cacheManager.files[getCacheFilePath(key)] # NoEntry
               THEN [cacheManager EXCEPT
                        !.files = [@ EXCEPT ![getCacheFilePath(key)] = NoEntry],
                        !.last = [op |-> "delete", key |-> key, at |-> cacheManager.now,
                                  result |-> <<>>],
                        !.deleted = @ \cup {key}]
               ELSE [cacheManager EXCEPT
                        !.last = [op |-> "delete", key |-> key, at |-> cacheManager.now,
                                  result |-> <<"ENOENT">>]]
    /\ UNCHANGED <<mapperCall, searchCall, extractCall, colorCall, typoCall, pipeline, scraper,
                   request, rateLimiter>>

\* clear: the map is cleared and every file is unlinked
CacheClear ==
    /\ cacheManager' =
           [cacheManager EXCEPT
               !.memoryCache = [key \in CacheKeys |-> NoEntry],
               !.files = [file \in CacheFiles |-> NoEntry],
               !.last = [op |-> "clear", key |-> "", at |-> cacheManager.now, result |-> <<>>]]
    /\ UNCHANGED <<mapperCall, searchCall, extractCall, colorCall, typoCall, pipeline, scraper,
                   request, rateLimiter>>

\* a minute passes
MinutePasses ==
    /\ cacheManager.now < MaxNow
    /\ cacheManager' = [cacheManager EXCEPT !.now = @ + 1]
    /\ UNCHANGED <<mapperCall, searchCall, extractCall, colorCall, typoCall, pipeline, scraper,
                   request, rateLimiter>>

NextCacheManager == CacheGet \/ CacheSet \/ CacheDelete \/ CacheClear \/ MinutePasses

SpecCacheManager == InitCacheManager /\ [][NextCacheManager]_vars

-----------------------------------------------------------------------------
(* RateLimiter *)

\* the limiters: up to this many requests in a window of up to this many
\* milliseconds
MaxRequestsAllowed == 2
MaxWindowMs == 3

\* the clock is followed up to here, and canMakeRequest is called up to this
\* many times
MaxTimeMs == 4
MaxCalls == 5

\* a window that is one millisecond short
InWindowShort(now, time, windowMs) == now - time < windowMs - 1

\* now - time < this.windowMs
InWindow(now, time, windowMs) == now - time < windowMs

\* requests is the array of the limiter; granted has the times of all the
\* calls that returned true, calls counts the calls, and last is what the
\* last call returned
InitRateLimiter ==
    /\ rateLimiter \in [maxRequests : 1..MaxRequestsAllowed, windowMs : 0..MaxWindowMs,
                        requests : {<<>>}, now : {0}, granted : {<<>>}, calls : {0},
                        last : {FALSE}]
    /\ mapperCall = NotUsed
    /\ searchCall = NotUsed
    /\ extractCall = NotUsed
    /\ colorCall = NotUsed
    /\ typoCall = NotUsed
    /\ pipeline = NotUsed
    /\ scraper = NotUsed
    /\ request = NotUsed
    /\ cacheManager = NotUsed

canMakeRequest ==
    /\ rateLimiter.calls < MaxCalls
    /\ LET Recent(time) == InWindow(rateLimiter.now, time, rateLimiter.windowMs)
           requests == SelectSeq(rateLimiter.requests, Recent)
       IN rateLimiter' =
              IF Len(requests) < rateLimiter.maxRequests
              THEN [rateLimiter EXCEPT
                       !.requests = Append(requests, rateLimiter.now),
                       !.granted = Append(@, rateLimiter.now),
                       !.calls = @ + 1,
                       !.last = TRUE]
              ELSE [rateLimiter EXCEPT
                       !.requests = requests,
                       !.calls = @ + 1,
                       !.last = FALSE]
    /\ UNCHANGED <<mapperCall, searchCall, extractCall, colorCall, typoCall, pipeline, scraper,
                   request, cacheManager>>

\* Date.now() goes on by a millisecond
MillisecondPasses ==
    /\ rateLimiter.now < MaxTimeMs
    /\ rateLimiter' = [rateLimiter EXCEPT !.now = @ + 1]
    /\ UNCHANGED <<mapperCall, searchCall, extractCall, colorCall, typoCall, pipeline, scraper,
                   request, cacheManager>>

NextRateLimiter == canMakeRequest \/ MillisecondPasses

SpecRateLimiter == InitRateLimiter /\ [][NextRateLimiter]_vars

-----------------------------------------------------------------------------
(* Properties of ComponentMapper.findMisticaEquivalents *)

MapperReturned == mapperCall.pc = "returned"

\* what the three tiers pushed in the call the state holds
Pushed ==
    AllSuggestions(mapperCall.elements, mapperCall.structure, mapperCall.patterns,
                   mapperCall.allComponents)

\* C1: the list returned by findMisticaEquivalents has at most 10 entries and no
\* two of them have the same component.name.
C1_AtMostTenDistinctNames ==
    MapperReturned =>
        /\ Len(mapperCall.suggestions) <= 10
        /\ \A i, j \in 1..Len(mapperCall.suggestions) :
               i # j => mapperCall.suggestions[i].component.name
                            # mapperCall.suggestions[j].component.name

\* a call whose tiers pushed more than ten suggestions, one name twice among
\* them, and that returned ten
C1_Witness ==
    /\ MapperReturned
    /\ Len(Pushed) > 10
    /\ \E i, j \in 1..Len(Pushed) : i # j /\ Pushed[i].component.name = Pushed[j].component.name
    /\ Len(mapperCall.suggestions) = 10

\* the pipeline of the Component Mapper section: collect all, sort descending by
\* score, drop every later suggestion of a name already seen, keep the first 10
CanonicalPipeline(suggestions) ==
    Slice(FilterFirstByName(SortByScoreDesc(suggestions)), 10)

C3_SortedByScore ==
    MapperReturned =>
        \A i \in 1..(Len(mapperCall.suggestions) - 1) :
            mapperCall.suggestions[i].score >= mapperCall.suggestions[i + 1].score

\* a call whose tiers pushed a lower score before a higher one and that returned
\* entries of different scores
C3_Witness ==
    /\ MapperReturned
    /\ \E i, j \in 1..Len(Pushed) : i < j /\ Pushed[i].score < Pushed[j].score
    /\ \E i \in 1..(Len(mapperCall.suggestions) - 1) :
           mapperCall.suggestions[i].score > mapperCall.suggestions[i + 1].score

\* C4: every suggestion returned by findMisticaEquivalents has score >= 0.
C4_ScoresNonNegative ==
    MapperReturned =>
        \A i \in 1..Len(mapperCall.suggestions) : mapperCall.suggestions[i].score >= 0

\* a call that returned a list-family suggestion carrying the -20 penalty (Menu: a
\* name without "list" or "row")
C4_Witness ==
    /\ MapperReturned
    /\ mapperCall.elements.lists.found
    /\ \E i \in 1..Len(mapperCall.suggestions) :
           LET s == mapperCall.suggestions[i]
               mapping == createElementMappings(mapperCall.elements,
                                                mapperCall.structure).lists
           IN /\ s.component.name = "Menu"
              /\ s.reason = mapping.reason
              /\ s.score = calculateIntelligentScore("lists", s.component,
                                                     mapperCall.elements, mapping)
              /\ s.score < mapping.priority + categoryBoosts(s.component.category)
                               + 10

-----------------------------------------------------------------------------
(* Properties of SearchEngine.smartSearchComponents *)

SearchReturned == searchCall.pc = "returned"

\* the score of a component of the call the state holds
Relevance(c) == ScoreFor(c, searchCall.query)

ExactMatches ==
    {i \in 1..Len(searchCall.components) :
        ToLowerCase(searchCall.components[i].name) = Trim(ToLowerCase(searchCall.query))}

\* C5: for a non-blank query, a catalog component whose lowercased name equals the
\* trimmed, lowercased query receives score 100 and is the first element of the
\* returned list.
C5_ExactMatchFirst ==
    (SearchReturned /\ ~IsBlank(searchCall.query)) =>
        \A i \in ExactMatches :
            /\ Relevance(searchCall.components[i]) = 100
            /\ Len(searchCall.results) > 0
            /\ ToLowerCase(searchCall.results[1].name)
                   = Trim(ToLowerCase(searchCall.query))

\* C6: for an empty or whitespace-only query the input list is returned
\* unmodified: same elements, same order.
C6_BlankQueryReturnsInput ==
    (SearchReturned /\ IsBlank(searchCall.query)) =>
        searchCall.results = searchCall.components

\* a blank query over a catalog of several components
C6_Witness ==
    /\ SearchReturned
    /\ searchCall.query # ""
    /\ IsBlank(searchCall.query)
    /\ Len(searchCall.components) >= 2
    /\ searchCall.results = searchCall.components

\* C7: for a non-blank query the result holds exactly the catalog components of
\* score > 0, in non-increasing score order, equal scores in catalog order.
C7_PositiveSortedStable ==
    (SearchReturned /\ ~IsBlank(searchCall.query)) =>
        LET components == searchCall.components
            results == searchCall.results
            score == [i \in 1..Len(components) |-> Relevance(components[i])]
            positive == {i \in 1..Len(components) : score[i] > 0}
        IN \E at \in [1..Len(results) -> positive] :
               /\ \A i \in 1..Len(results) : results[i] = components[at[i]]
               /\ {at[i] : i \in 1..Len(results)} = positive
               /\ \A i \in 1..(Len(results) - 1) :
                      \/ score[at[i]] > score[at[i + 1]]
                      \/ score[at[i]] = score[at[i + 1]] /\ at[i] < at[i + 1]

\* a search that dropped a component of score 0, moved a later component ahead of
\* an earlier one and kept two components of equal score in catalog order
C7_Witness ==
    /\ SearchReturned
    /\ ~IsBlank(searchCall.query)
    /\ Len(searchCall.results) = 3
    /\ Len(searchCall.components) = 4
    /\ searchCall.results[1] = searchCall.components[3]
    /\ searchCall.results[2] = searchCall.components[4]
    /\ searchCall.results[3] = searchCall.components[1]
    /\ Relevance(searchCall.results[1]) = Relevance(searchCall.results[2])
    /\ Relevance(searchCall.components[2]) = 0

-----------------------------------------------------------------------------
(* Properties of ElementExtractor.extractUIElements *)

ExtractReturned == extractCall.pc = "returned"

\* the count and list fields of every family are at their zero value
\* when the family is not found
NotFoundIsEmpty(elements) ==
    /\ ~elements.buttons.found =>
           /\ elements.buttons.count = 0
           /\ elements.buttons.variants = <<>>
           /\ elements.buttons.positions = <<>>
    /\ ~elements.texts.found =>
           /\ elements.texts.count = 0
           /\ elements.texts.hierarchy = <<>>
           /\ elements.texts.figmaPresets = <<>>
    /\ ~elements.containers.found =>
           /\ elements.containers.count = 0
           /\ elements.containers.types = <<>>
    /\ ~elements.lists.found => elements.lists.count = 0
    /\ ~elements.icons.found =>
           /\ elements.icons.count = 0
           /\ elements.icons.types = <<>>
    /\ ~elements.inputs.found =>
           /\ elements.inputs.count = 0
           /\ elements.inputs.types = <<>>
    /\ ~elements.images.found => elements.images.count = 0
    /\ ~elements.forms.found => elements.forms.fieldTypes = <<>>
    /\ ~elements.spacing.found =>
           /\ elements.spacing.spacingTypes = <<>>
           /\ elements.spacing.spacingValues = <<>>
           /\ elements.spacing.spacingPatterns = <<>>
           /\ elements.spacing.detectedUnits = <<>>
           /\ elements.spacing.semanticSpacing = <<>>
    /\ ~elements.feedback.found => elements.feedback.detectedNames = <<>>
    /\ ~elements.figmaComponents.found =>
           elements.figmaComponents.detectedComponents = <<>>

\* C8: for every markup and every family extractUIElements returns, a family
\* whose found flag is false has count 0 and empty list fields.
C8_NotFoundNeverPopulated ==
    ExtractReturned => NotFoundIsEmpty(extractCall.elements)

-----------------------------------------------------------------------------
(* Properties of SkinVarsAnalyzer.normalizeColor *)

ColorReturned == colorCall.pc = "returned"

\* C9: normalizeColor is idempotent: normalizing the color a call returned
\* returns that color again, for every color literal (hex of 3 or 6 digits in
\* any case, rgb(r,g,b) with or without spaces, named colors, arbitrary text).
C9_NormalizeIdempotent ==
    ColorReturned => normalizeColor(colorCall.result) = colorCall.result

-----------------------------------------------------------------------------
(* Properties of TypographyAnalyzer.analyzeTypography *)

TypoReturned == typoCall.pc = "returned"

SizeInRange(size, level) ==
    /\ size >= Px(TEXT_SCALE_MAPPING[level].minSize)
    /\ size <= Px(TEXT_SCALE_MAPPING[level].maxSize)

WeightAllowed(weight, level) == InSeq(weight, TEXT_SCALE_MAPPING[level].weights)

\* C10: the confidence returned is 0.5, plus 0.3 exactly when the size returned
\* lies within the range of the level returned, plus 0.2 exactly when the
\* weight returned is among the weights of that level, capped at 1.0; and
\* whenever the size lies within the range of some level that allows the
\* weight returned, the confidence is at least 0.8.
C10_ConfidenceOfSizeAndWeight ==
    TypoReturned =>
        LET a == typoCall.analysis
        IN /\ a.confidence =
                  Min(10, 5 + (IF SizeInRange(a.size, a.textLevel) THEN 3 ELSE 0)
                            + (IF WeightAllowed(a.weight, a.textLevel) THEN 2 ELSE 0))
           /\ \A i \in 1..Len(TextLevels) :
                  SizeInRange(a.size, TextLevels[i]) /\ WeightAllowed(a.weight, TextLevels[i])
                      => a.confidence >= 8

\* a size of 24 lies within the ranges of text5 and of text6, of which only
\* the first allows the light weight: the call returned text5 and 1.0
C10_Witness ==
    /\ TypoReturned
    /\ typoCall.analysis.size = Px(24)
    /\ typoCall.analysis.weight = "light"
    /\ typoCall.analysis.textLevel = "text5"
    /\ typoCall.analysis.confidence = 10

\* the number of a level: 1 for text1, 10 for text10
LevelNumber(level) == CHOOSE i \in 1..Len(TextLevels) : TextLevels[i] = level

OutsideEveryRange(size) == \A i \in 1..Len(TextLevels) : ~SizeInRange(size, TextLevels[i])

\* the sizes the level of the call is compared with: every tenth of a pixel up
\* to a size above the table
ComparedSizes == 0..Px(MaxSizePx + 4)

\* C11: determineTextLevel returns one of text1..text10 for every size; and
\* among the sizes outside every range of the table the level does not grow
\* with the size: a larger size gets the same level or one of a lower number.
C11_OneLevelMonotonicOutside ==
    TypoReturned =>
        /\ \E i \in 1..Len(TextLevels) : typoCall.analysis.textLevel = TextLevels[i]
        /\ typoCall.analysis.textLevel = determineTextLevel(typoCall.analysis.size)
        /\ OutsideEveryRange(typoCall.analysis.size) =>
               \A other \in {size \in ComparedSizes : OutsideEveryRange(size)} :
                   /\ other > typoCall.analysis.size =>
                          LevelNumber(determineTextLevel(other))
                              <= LevelNumber(typoCall.analysis.textLevel)
                   /\ other < typoCall.analysis.size =>
                          LevelNumber(determineTextLevel(other))
                              >= LevelNumber(typoCall.analysis.textLevel)

\* a size of 48.5 is between the ranges of text2 and text1: the staircase
\* returned text2
C11_Witness ==
    /\ TypoReturned
    /\ typoCall.analysis.size = 485
    /\ OutsideEveryRange(typoCall.analysis.size)
    /\ typoCall.analysis.textLevel = "text2"

-----------------------------------------------------------------------------
(* Properties of the pipeline *)

SameCall(a, b) == a.operation = b.operation /\ a.arguments = b.arguments

-----------------------------------------------------------------------------
(* Properties of findMisticaEquivalents called without a catalog *)

\* C13: a call of findMisticaEquivalents whose catalog is null or undefined
\* fails with an error whatever the elements, the structure and the patterns
\* are; it never returns a list of suggestions, not even when no family is
\* detected and no pattern is set.
C13_NoCatalogAlwaysFails == mapperCall.pc = "returned" => mapperCall.outcome.threw # ""

\* the font weight the analysis goes on with, after the classes of the markup
WeightOfCall ==
    ResolvedWeight(extractFontWeight(typoCall.cssText), typoCall.elementHtml,
                   extractTailwindFontWeight(typoCall.elementHtml))

\* no keyword of a weight in the font weight, in the style or in the markup,
\* and no number at the start of the font weight
WeightUnparsable ==
    /\ WeightOfKeywords(ToLowerCase(WeightOfCall),
                        ToLowerCase(typoCall.cssText \o typoCall.elementHtml)) = 0
    /\ ParseIntOrNaN(WeightOfCall) = <<>>

\* no font-size declaration with a number in the style, and no size class in
\* the markup
SizeUndeclared ==
    /\ ~Test(Cat(<<Lit("font-size:"), Star(Space), Digit>>), typoCall.cssText)
    /\ extractTailwindFontSize(typoCall.elementHtml) = Px(DefaultSize)

UnparsableWeightIsRegular ==
    TypoReturned /\ WeightUnparsable => typoCall.analysis.weight = "regular"

UndeclaredSizeIsDefault ==
    TypoReturned /\ SizeUndeclared => typoCall.analysis.size = Px(DefaultSize)

\* C14: a font weight that holds no weight keyword and is no number, in a
\* style and markup without weight keyword, gives the weight regular, and a
\* font size that is absent or is no number gives the size 16; no error is
\* raised.
C14_DefaultsForUnparsable == UnparsableWeightIsRegular /\ UndeclaredSizeIsDefault

-----------------------------------------------------------------------------
(* Properties of findMisticaEquivalents for a fixed footer with a button *)

FooterWords == <<"layout", "footer", "fixed", "button">>

\* C15: when the layout has a fixed footer that holds a button and some
\* component of the catalog has one of the words layout, footer, fixed and
\* button in its lowercased name or description, the list returned holds a
\* suggestion of score 95, whatever else is detected.
C15_FooterSuggestionReturned ==
    /\ mapperCall.pc = "returned"
    /\ mapperCall.elements.layouts.hasFixedFooter
    /\ mapperCall.elements.layouts.containsButtonInFooter
    /\ findComponentsByPattern(mapperCall.allComponents, FooterWords) # <<>>
    => \E i \in 1..Len(mapperCall.suggestions) : mapperCall.suggestions[i].score = 95

-----------------------------------------------------------------------------
(* Properties of ElementExtractor.extractFigmaTextPresets *)

\* what the three strategies find in the markup of the call, in the order
\* they are pushed
PushedPresets ==
    detectPresetsByName(extractCall.code) \o detectPresetsByCSSProperties(extractCall.code)
    \o detectPresetsBySemanticContext(extractCall.code)

SamePair(a, b) == a.preset = b.preset /\ a.variant = b.variant

\* C16: the list extractFigmaTextPresets returns has at most one entry for a
\* pair of preset and variant; the entry of a pair is one the three strategies
\* produced for it, and none they produced for it has a higher
\* confidenceScore; the list is in non-increasing order of confidenceScore;
\* and a markup that holds text-preset-3/regular gives the entry of text3 and
\* regular the confidenceScore 1.0.
C16_OnePerPairHighestFirst ==
    extractCall.pc = "returned" =>
        LET Holds(presets, pushed) ==
                /\ \A i, j \in 1..Len(presets) : i # j => ~SamePair(presets[i], presets[j])
                /\ \A i \in 1..Len(presets) :
                       /\ \E k \in 1..Len(pushed) : pushed[k] = presets[i]
                       /\ \A k \in 1..Len(pushed) :
                              SamePair(pushed[k], presets[i])
                                  => pushed[k].confidenceScore <= presets[i].confidenceScore
                /\ \A k \in 1..Len(pushed) :
                       \E i \in 1..Len(presets) : SamePair(pushed[k], presets[i])
                /\ \A i \in 1..(Len(presets) - 1) :
                       presets[i].confidenceScore >= presets[i + 1].confidenceScore
                /\ Includes(extractCall.code, "text-preset-3/regular") =>
                       \E i \in 1..Len(presets) :
                           /\ presets[i].preset = "text3"
                           /\ presets[i].variant = "regular"
                           /\ presets[i].confidenceScore = 10
        IN Holds(extractCall.presets, PushedPresets)

\* a markup in which the names and the CSS properties both produce the pair
\* of text3 and regular, and the context another pair of lower confidenceScore
C16_Witness ==
    LET Produced(pushed) ==
            \A confidence \in {10, 7} :
                \E k \in 1..Len(pushed) :
                    /\ pushed[k].preset = "text3"
                    /\ pushed[k].variant = "regular"
                    /\ pushed[k].confidenceScore = confidence
    IN /\ extractCall.pc = "returned"
       /\ Len(extractCall.presets) = 2
       /\ extractCall.presets[1].preset = "text3"
       /\ extractCall.presets[2].preset = "text1"
       /\ Produced(PushedPresets)

-----------------------------------------------------------------------------
(* Properties of MisticaScraper.getAllComponents *)

\* no two components of the list have the same category and the same
\* lowercased name
NoDuplicatePairs(components) ==
    Cardinality({<<components[i].category, ToLowerCase(components[i].name)>> :
                    i \in 1..Len(components)}) = Len(components)

\* C17: no list getAllComponents returns holds two components of the same
\* category and the same lowercased name: not after a discovery from the
\* package and the Storybook, not when the known components are taken, be it
\* for want of others or after an error, and not when the list is the one of
\* the cache.
C17_CatalogWithoutDuplicates ==
    /\ scraper.returned # <<>> => NoDuplicatePairs(scraper.returned[1])
    /\ scraper.cache # <<>> => NoDuplicatePairs(scraper.cache[1])
    /\ NoDuplicatePairs(scraper.status.components)

\* a list served from the cache that was discovered from sources holding the
\* same pair twice
C17_Witness ==
    /\ scraper.path = "cache"
    /\ scraper.returned # <<>>
    /\ \E npm \in NpmSources, storybook \in StorybookSources :
           /\ ~npm.unnamed
           /\ ~NoDuplicatePairs(Collected(npm, storybook))
           /\ scraper.returned[1] = Discovered(npm, storybook).components

-----------------------------------------------------------------------------
(* Properties of MisticaTools.getCacheStatus *)

\* C18: a cache status asked with refresh = true reports a list that was
\* discovered anew by that call, never the list of the cache entry that
\* existed before it.
C18_RefreshRediscovers ==
    scraper.status.refresh => scraper.status.path # "cache"

-----------------------------------------------------------------------------
(* Properties of SearchEngine.calculateRelevanceScore *)

\* one addition for the name and a term: that of the equality, or else that
\* of the prefix, of the suffix or of the substring
OneNameMatchScore(name, term) ==
    IF ~Includes(name, term) THEN 0
    ELSE IF name = term THEN 90
    ELSE IF StartsWith(name, term) THEN 80
    ELSE IF EndsWith(name, term) THEN 70
    ELSE 60

\* C19: for every component whose name is not the query itself, and every
\* search term of the query, what the name adds to the score is one of 0, 90
\* (the name is the term), 80 (the term is a proper prefix), 70 (a proper
\* suffix) and 60 (another substring); the addition of the equality and one
\* of the three others never go together.
C19_OneNameBonusPerTerm ==
    (searchCall.pc = "returned" /\ ~IsBlank(searchCall.query)) =>
        LET normalizedQuery == Trim(ToLowerCase(searchCall.query))
            searchTerms == extractSearchTerms(normalizedQuery)
        IN \A i \in 1..Len(searchCall.components), t \in 1..Len(searchTerms) :
               LET name == ToLowerCase(searchCall.components[i].name)
               IN name # normalizedQuery =>
                      /\ NameMatchScore(name, searchTerms[t]) \in {0, 90, 80, 70, 60}
                      /\ NameMatchScore(name, searchTerms[t])
                             = OneNameMatchScore(name, searchTerms[t])

-----------------------------------------------------------------------------
(* Properties of SearchEngine.searchMultipleTerms *)

\* found[t] being the result of smartSearchComponents for the t-th term, what
\* a name has accumulated: over the terms and the positions of the name in
\* their results, 50 less 5 for every position before it, and never less
\* than 0
AccumulatedBonus(found, name) ==
    LET Positions(t) == {p \in 1..Len(found[t]) : found[t][p].name = name}
        RECURSIVE OfPositions(_)
        OfPositions(P) ==
            IF P = {} THEN 0
            ELSE LET p == CHOOSE q \in P : TRUE
                 IN (IF 5 * (p - 1) < 50 THEN 50 - 5 * (p - 1) ELSE 0)
                    + OfPositions(P \ {p})
        RECURSIVE OfTerms(_)
        OfTerms(t) == IF t > Len(found) THEN 0
                      ELSE OfPositions(Positions(t)) + OfTerms(t + 1)
    IN OfTerms(1)

FoundByTerm ==
    [t \in 1..Len(searchCall.terms) |->
        smartSearchComponents(searchCall.components, searchCall.terms[t])]

\* C20: searchMultipleTerms returns no name twice, and returns the components
\* in the order of what their names have accumulated, the highest first:
\* over the terms whose result has the name, the bonus of its position there,
\* 50 for the first and 5 less for every further position, never less than 0.
C20_OncePerNameByAccumulatedBonus ==
    searchCall.pc = "returned" =>
        \E found \in {FoundByTerm} :
            LET results == searchCall.results
            IN /\ \A i, j \in 1..Len(results) : i # j => results[i].name # results[j].name
               /\ \A i \in 1..(Len(results) - 1) :
                      AccumulatedBonus(found, results[i].name)
                          >= AccumulatedBonus(found, results[i + 1].name)

\* the name returned first was found for two terms, at the first place by
\* one and at the second by the other, and it is not the first of the catalog
C20_Witness ==
    /\ searchCall.pc = "returned"
    /\ Len(searchCall.results) >= 2
    /\ searchCall.results[1] # searchCall.components[1]
    /\ \E found \in {FoundByTerm} :
           /\ AccumulatedBonus(found, searchCall.results[1].name) = 95
           /\ AccumulatedBonus(found, searchCall.results[2].name) < 95

-----------------------------------------------------------------------------
(* Properties of ElementExtractor.extractSpacing *)

\* C21: with n the number of distinct spacing values detected, the spacing
\* patterns hold 'consistent' exactly when n = 1, 'design-system' exactly
\* when n is 2 or 3 and 'mixed' exactly when n is 4 or more, so none of the
\* three when no value was detected; and they hold 'design-system-aligned'
\* exactly when a detected value is one of 4px, 8px, 12px, 16px, 20px, 24px,
\* 32px and 40px.
C21_SpacingPatternByCount ==
    extractCall.pc = "returned" =>
        LET Holds(spacing, n) ==
                /\ InSeq("consistent", spacing.spacingPatterns) <=> n = 1
                /\ InSeq("design-system", spacing.spacingPatterns) <=> (2 <= n /\ n <= 3)
                /\ InSeq("mixed", spacing.spacingPatterns) <=> n >= 4
                /\ InSeq("design-system-aligned", spacing.spacingPatterns)
                       <=> \E i \in 1..n :
                               spacing.spacingValues[i] \in
                                   {"4px", "8px", "12px", "16px", "20px", "24px",
                                    "32px", "40px"}
        IN Holds(extractCall.elements.spacing, Len(extractCall.elements.spacing.spacingValues))

-----------------------------------------------------------------------------
(* Properties of ElementExtractor.extractLayouts *)

\* /footer.*button|button.*footer/gi.test(code)
ButtonNearFooter(code) ==
    Test(Alt(<<Before("footer", "button"), Before("button", "footer")>>), code)

\* C22: the layout type is the first that applies of fixed-footer-with-button
\* (a fixed footer and a button with it), fixed-footer, fixed-header, modal
\* and standard; a button in the footer implies a fixed footer; the type is
\* fixed-footer-with-button exactly when the footer holds a button, and
\* standard exactly when no layout was found.
C22_LayoutTypeByPriority ==
    extractCall.pc = "returned" =>
        LET Holds(layouts, withButton) ==
                /\ layouts.layoutType =
                       (IF layouts.hasFixedFooter /\ withButton THEN "fixed-footer-with-button"
                        ELSE IF layouts.hasFixedFooter THEN "fixed-footer"
                        ELSE IF layouts.hasFixedHeader THEN "fixed-header"
                        ELSE IF layouts.hasModal THEN "modal"
                        ELSE "standard")
                /\ layouts.containsButtonInFooter => layouts.hasFixedFooter
                /\ layouts.layoutType = "fixed-footer-with-button"
                       <=> layouts.containsButtonInFooter
                /\ layouts.layoutType = "standard" <=> ~layouts.found
        IN Holds(extractCall.layouts, ButtonNearFooter(extractCall.code))

\* a markup with a fixed header, a modal and a button by a footer that is
\* not fixed
C22_Witness ==
    /\ extractCall.pc = "returned"
    /\ ~extractCall.layouts.hasFixedFooter
    /\ extractCall.layouts.hasFixedHeader
    /\ extractCall.layouts.hasModal
    /\ ButtonNearFooter(extractCall.code)
    /\ extractCall.layouts.layoutType = "fixed-header"

-----------------------------------------------------------------------------
(* Properties of SkinVarsAnalyzer.analyzeSkinVarsUsage *)

\* the colors of the sub-role a variable names, as the table writes them
ColorsOfSkinVar(category, varName) ==
    UNION {{SKIN_VARS_MAPPING[r][3][i] : i \in 1..Len(SKIN_VARS_MAPPING[r][3])} :
              r \in {q \in 1..Len(SKIN_VARS_MAPPING) :
                        /\ SKIN_VARS_MAPPING[q][1] = category
                        /\ "skinVars.colors." \o SKIN_VARS_MAPPING[q][2] = varName}}

\* C23: the confidence of a mapping is 0.7, and 0.2 more when the context of
\* the property is the category of the entry matched, and 0.1 more when the
\* color as the style writes it is, byte for byte, an entry of the sub-role
\* matched, and at most 1.0; a color that is an entry only once normalized
\* does not get the 0.1.
C23_ConfidenceOfWrittenColor ==
    (colorCall.pc = "returned" /\ colorCall.elementHtml = "") =>
        \A i \in 1..Len(colorCall.matches) :
            LET Holds(property, skinVar) ==
                    skinVar # <<>> =>
                        skinVar[1].confidence =
                            Min(10,
                                7 + (IF determineColorContext(property, colorCall.element)
                                            = skinVar[1].category THEN 2 ELSE 0)
                                  + (IF colorCall.literal \in
                                            ColorsOfSkinVar(skinVar[1].category,
                                                            skinVar[1].varName)
                                     THEN 1 ELSE 0))
            IN Holds(colorCall.matches[i].property, colorCall.matches[i].skinVar)

\* the rows of the table that have the color, once both are normalized
RowsOfColor(normalizedColor) ==
    {r \in 1..Len(SKIN_VARS_MAPPING) :
        \E i \in 1..Len(SKIN_VARS_MAPPING[r][3]) :
            normalizeColor(SKIN_VARS_MAPPING[r][3][i]) = normalizedColor}

\* C24: of the sub-roles that have the normalized color, findBestSkinVarMatch
\* returns the one of the highest confidence, and of several of that
\* confidence the one the table declares first (text, background, border,
\* control, and the sub-roles in their order); it returns null exactly when
\* no entry of the table is the color.
C24_HighestConfidenceFirstDeclared ==
    colorCall.pc = "returned" =>
        \A i \in 1..Len(colorCall.matches) :
            LET Holds(skinVar, rows, context, color) ==
                    LET ConfidenceOf(r) ==
                            calculateColorConfidence(color, color, context,
                                                     SKIN_VARS_MAPPING[r][1])
                    IN /\ skinVar = <<>> <=> rows = {}
                       /\ skinVar # <<>> =>
                              \E r \in rows :
                                  /\ skinVar[1].category = SKIN_VARS_MAPPING[r][1]
                                  /\ skinVar[1].varName
                                         = "skinVars.colors." \o SKIN_VARS_MAPPING[r][2]
                                  /\ skinVar[1].confidence = ConfidenceOf(r)
                                  /\ \A q \in rows :
                                         /\ ConfidenceOf(q) <= ConfidenceOf(r)
                                         /\ ConfidenceOf(q) = ConfidenceOf(r) => r <= q
            IN Holds(colorCall.matches[i].skinVar,
                     RowsOfColor(normalizeColor(colorCall.matches[i].value)),
                     determineColorContext(colorCall.matches[i].property, colorCall.element),
                     normalizeColor(colorCall.matches[i].value))

\* white as a background: text.inverse has it and comes first, canvas and
\* container have it with the higher confidence, and canvas is returned
C24_Witness ==
    /\ colorCall.pc = "returned"
    /\ \E i \in 1..Len(colorCall.matches) :
           /\ colorCall.matches[i].property = "background-color"
           /\ colorCall.matches[i].value = "#ffffff"
           /\ colorCall.matches[i].skinVar # <<>>
           /\ colorCall.matches[i].skinVar[1].varName = "skinVars.colors.canvas"
           /\ colorCall.matches[i].skinVar[1].confidence = 10

\* C28: every mapping analyzeSkinVarsUsage returns has one of the categories
\* text, background, border, brand and neutral: no entry of the group control
\* of the table is ever the best match.
C28_CategoryDeclared ==
    colorCall.pc = "returned" =>
        \A i \in 1..Len(colorCall.mappings) :
            colorCall.mappings[i].category \in
                {"text", "background", "border", "brand", "neutral"}

\* a color the group control has, in the style of a button, mapped to another
\* group
C28_Witness ==
    /\ colorCall.pc = "returned"
    /\ colorCall.element = "button"
    /\ colorCall.property = "background"
    /\ colorCall.literal = "#f5f5f5"
    /\ colorCall.elementHtml = ""
    /\ Len(colorCall.mappings) = 1
    /\ colorCall.mappings[1].category = "background"

-----------------------------------------------------------------------------
(* Properties of ComponentMapper.calculateIntelligentScore *)

\* C25: what the complexity adds to a score follows the complexity inferred
\* from the counts of the families: 20 when it is high, 15 when it is medium,
\* 10 or 5 when it is low, and -10 when high is expected and the inferred
\* complexity is not high; and every one of the five amounts is added for
\* some elements.
C25_FiveComplexityAdjustments ==
    mapperCall.pc = "returned" =>
        LET Holds(complexity, boost) ==
                /\ complexity = "high" => boost \in {20, -10}
                /\ complexity = "medium" => boost \in {15, -10}
                /\ complexity = "low" => boost \in {10, 5, -10}
        IN /\ Holds(inferComplexity(mapperCall.elements),
                    ComplexityBoost(mapperCall.elements))
           /\ \A amount \in {20, 15, 10, 5, -10} :
                  \E D \in {X \in SUBSET InputSignals : Cardinality(X) <= MaxDetected} :
                      \E elements \in ElementsWith(D) : ComplexityBoost(elements) = amount

-----------------------------------------------------------------------------
(* Properties of MisticaScraper.makeRequest *)

RequestSettled == request.pc \in {"returned", "thrown"}

\* the calls of axios.get made so far
GetCalls == Len(request.errors) + (IF request.pc = "returned" THEN 1 ELSE 0)

RetryBounded ==
    /\ request.retries <= 3
    /\ GetCalls <= 1 + 3
    /\ Len(request.delays) <= 3
    /\ \A k \in 1..Len(request.delays) : request.delays[k] = 1000 * k
    /\ request.pc = "thrown" =>
           /\ Len(request.errors) = 1 + 3
           /\ request.outcome = <<request.errors[Len(request.errors)]>>
    /\ request.pc = "returned" =>
           /\ request.outcome = <<[url |-> request.url, call |-> Len(request.errors) + 1]>>
           /\ Len(request.delays) = Len(request.errors)

\* C26: a request that keeps failing is retried at most 3 times, the k-th
\* retry after a delay of 1000 x k ms, and then the last error is thrown to
\* the caller; the first response that succeeds is returned; and every
\* makeRequest comes to its end, whatever the requests do.
C26_RetryThriceAndSettle == []RetryBounded /\ <>RequestSettled

\* the error of the fourth request thrown after delays of 1, 2 and 3 seconds
C26_Witness ==
    /\ request.pc = "thrown"
    /\ request.delays = <<1000, 2000, 3000>>
    /\ request.errors = <<"ETIMEDOUT", "status 500", "ECONNRESET", "ETIMEDOUT">>
    /\ request.outcome = <<"ETIMEDOUT">>

-----------------------------------------------------------------------------
(* Properties of the suggestions and the catalog *)

\* C27: every suggestion findMisticaEquivalents returns has a component of
\* the catalog it was given: a name of the tables of the families or of the
\* lists of the patterns that no component of the catalog has gives no
\* suggestion, and an empty catalog gives none at all.
C27_SuggestionsFromCatalog ==
    mapperCall.pc = "returned" =>
        /\ \A i \in 1..Len(mapperCall.suggestions) :
               \E k \in 1..Len(mapperCall.allComponents) :
                   mapperCall.suggestions[i].component = mapperCall.allComponents[k]
        /\ mapperCall.allComponents = <<>> => mapperCall.suggestions = <<>>

\* buttons with actions and the modal pattern, for a catalog that has
\* ButtonPrimary and Drawer and neither ButtonSecondary nor ActionsSheet
C27_Witness ==
    /\ mapperCall.pc = "returned"
    /\ mapperCall.elements.buttons.found
    /\ mapperCall.elements.buttons.hasActions
    /\ mapperCall.patterns.modalPattern
    /\ \A k \in 1..Len(mapperCall.allComponents) :
           mapperCall.allComponents[k].name \notin {"ButtonSecondary", "ActionsSheet"}
    /\ \E i \in 1..Len(mapperCall.suggestions) :
           mapperCall.suggestions[i].component.name = "ButtonPrimary"
    /\ \E i \in 1..Len(mapperCall.suggestions) :
           mapperCall.suggestions[i].component.name = "Drawer"

-----------------------------------------------------------------------------
(* Properties of CacheManager *)

\* C29: after a delete of a key has completed, and until the key is set
\* again, get returns null and has returns false for it, also when the map in
\* memory still has the entry; and get returns no entry whose expiry has
\* passed.
C29_DeletedIsAbsent ==
    cacheManager.last.op \in {"get", "has"} =>
        /\ cacheManager.last.key \in cacheManager.deleted =>
               cacheManager.last.result = NoEntry
        /\ cacheManager.last.result # NoEntry =>
               cacheManager.last.result[1].expiry >= cacheManager.last.at

-----------------------------------------------------------------------------
(* Properties of RateLimiter *)

\* the calls granted from one time to another
GrantedWithin(from, to) ==
    Cardinality({i \in 1..Len(rateLimiter.granted) :
                    from <= rateLimiter.granted[i] /\ rateLimiter.granted[i] <= to})

\* no interval shorter than the window has more grants than maxRequests
WindowRespected ==
    \A from \in 0..rateLimiter.now, to \in 0..rateLimiter.now :
        (from <= to /\ to - from < rateLimiter.windowMs) =>
            GrantedWithin(from, to) <= rateLimiter.maxRequests

\* a call returns true exactly when fewer than maxRequests grants are less
\* than a window old, and only then a time is recorded
CallByWindow ==
    rateLimiter'.calls = rateLimiter.calls + 1 =>
        LET recent == Cardinality({i \in 1..Len(rateLimiter.granted) :
                          rateLimiter.now - rateLimiter.granted[i] < rateLimiter.windowMs})
        IN /\ rateLimiter'.last <=> recent < rateLimiter.maxRequests
           /\ rateLimiter'.last =>
                  /\ rateLimiter'.granted = Append(rateLimiter.granted, rateLimiter.now)
                  /\ Len(rateLimiter'.requests) = recent + 1
                  /\ rateLimiter'.requests[recent + 1] = rateLimiter.now
           /\ ~rateLimiter'.last =>
                  /\ rateLimiter'.granted = rateLimiter.granted
                  /\ Len(rateLimiter'.requests) = recent
                  /\ \A i \in 1..recent :
                         \E k \in 1..Len(rateLimiter.requests) :
                             rateLimiter'.requests[i] = rateLimiter.requests[k]

\* C30: with calls of canMakeRequest at times that never go back, the calls
\* that returned true within any interval shorter than windowMs are never
\* more than maxRequests; a call that returns false records no time; and a
\* call returns true whenever fewer than maxRequests of the calls granted lie
\* within the last windowMs.
C30_WindowNeverExceeded == []WindowRespected /\ [][CallByWindow]_vars

\* a limiter of 2 requests in 3 ms that granted two calls, refused the third
\* within the window and granted one more once the first had left the window
C30_Witness ==
    /\ rateLimiter.maxRequests = 2
    /\ rateLimiter.windowMs = 3
    /\ rateLimiter.granted = <<0, 1, 3>>
    /\ rateLimiter.requests = <<1, 3>>
    /\ rateLimiter.calls = 4
    /\ rateLimiter.last

====
